---- MODULE Spec2Model ----
(***************************************************************************)
(* A model of PyEmpaq's unpack/run protocol (src/pyempaq/unpacker.py), of  *)
(* the pack-time copy and metadata steps (src/pyempaq/main.py) and of the  *)
(* configuration loader (src/pyempaq/config_manager.py).                   *)
(*                                                                         *)
(* The installation directory is a set of top-level entries, each with a   *)
(* status; run() is split at every point where the process can be killed   *)
(* or an exception can leave it.                                           *)
(***************************************************************************)
EXTENDS Integers, Sequences, FiniteSets, TLC

\* ---------------------------------------------------------------- bounds
MaxReqs == 2          \* longest requirement_files list of an archive
MaxExit == 1          \* payload / installer exit statuses are 0..MaxExit

\* ------------------------------------------------------- program constants
PROJECT_VENV_DIR == "project_venv"
COMPLETE_FLAG_FILE == "complete.flag"
UNPACKING_FILE == "unpacking.json"

\* what pack() puts in the archive and extractall() brings out, in order
\* (__main__.py and pyempaq/ go the way metadata.json and venv/ do)
ArchiveMembers == <<"metadata.json", "orig", "venv">>
ArchiveDirs == {"orig", "venv"}

ReqFiles == {"reqs1.txt", "reqs2.txt"}

Entries == {ArchiveMembers[i] : i \in 1..Len(ArchiveMembers)}
             \cup {PROJECT_VENV_DIR, UNPACKING_FILE, COMPLETE_FLAG_FILE}
DirEntries == ArchiveDirs \cup {PROJECT_VENV_DIR}

\* "partial": a tree half written or half removed; "created": a virtualenv
\* with pip but without the payload's dependencies; "installed": with them
Status == {"absent", "partial", "full", "created", "installed"}

\* os.environ.get("PYEMPAQ_EPHEMERAL"): None, or the variable's string
EnvUnset == "<unset>"
EphemeralValues == {EnvUnset, "", "1"}

\* no exit status yet
NoRc == 0 - 1

VARIABLES
    exists,            \* project_dir.exists()
    node,              \* status of every entry of project_dir
    fresh,             \* entries written by the run in progress
    rmCur,             \* the subtree a running shutil.rmtree is inside of
    pc,                \* where run() is
    ephemeral,         \* the run's PYEMPAQ_EPHEMERAL
    reqs,              \* metadata["requirement_files"] of the archive
    startState,        \* what the run found: absent / partial / complete
    calls,             \* extractall and venv.create calls of this run
    installLog,        \* commands given to logged_exec in this run
    installerOutcome,  \* how the installer ended in this run
    payloadRc,         \* exit status of the payload, once terminated
    ret,               \* what run() returned
    crash,             \* the exception that ended the run
    prev               \* summary of the run before this one

runVars == <<exists, node, fresh, rmCur, pc, ephemeral, reqs, startState, calls,
             installLog, installerOutcome, payloadRc, ret, crash, prev>>

\* two computations of build_project_install_dir, side by side
VARIABLES
    world,             \* what each computation can read: files, runtime, clock
    dirName            \* the name each computation returned

nameVars == <<world, dirName>>

\* the pack-time to run-time path of the exec information
VARIABLES
    phase,             \* "config" -> "metadata" -> "built"
    config,            \* the Config given to prepare_metadata
    metadata,          \* the content of metadata.json
    metaSource,        \* "packed": written by prepare_metadata; "loaded": any archive's
    autoreq,           \* the requirement file prepare_metadata wrote into orig/
    sysArgs,           \* sys.argv[1:]
    result             \* what build_command returned or raised

cmdVars == <<phase, config, metadata, metaSource, autoreq, sysArgs, result>>

\* __main__ and run() of the unpacker, from the metadata to exit()
VARIABLES
    mpc,               \* where run() is
    environ,           \* os.environ of the launcher
    disk,              \* the kind of every path the launcher may touch
    restrictions,      \* metadata["unpack_restrictions"]
    pythonVersion,     \* platform.python_version()
    baseDir,           \* what get_base_dir returned
    childEnv,          \* the env= given to subprocess.run
    childStatus,       \* proc.returncode
    raised,            \* the exception that ended run()
    exitCode,          \* what __main__ gave to exit()
    logs               \* the records given to the logger by enforce_restrictions

mainVars == <<mpc, environ, disk, restrictions, pythonVersion, baseDir, childEnv,
              childStatus, raised, exitCode, logs>>

\* copy_project, from the patterns to the destination tree
VARIABLES
    cpc,               \* where copy_project is
    fs,                \* the disk: what every path holds
    umask,             \* the process's file mode creation mask
    scanOrder,         \* the order the file system lists a directory in
    include,           \* the include patterns
    exclude,           \* the exclude patterns
    includedNodes,     \* the keys of included_nodes, in order
    excludedNodes,     \* excluded_nodes
    symlinkedDirs,     \* symlinked_dirs
    idx,               \* the included node the main loop is at
    copyError,         \* the exception that ended copy_project
    ops                \* per node of the main loop, the calls made on the destination

copyVars == <<cpc, fs, umask, scanOrder, include, exclude, includedNodes, excludedNodes,
              symlinkedDirs, idx, copyError, ops>>

\* pack(), from the scratch directory to the archive
VARIABLES
    ppc,               \* where pack() is
    packConfig,        \* the Config given to pack()
    selection,         \* the project files the include and exclude patterns select
    scratch,           \* the directory of tempfile.mkdtemp() exists
    staged,            \* what the scratch directory holds
    packMetadata,      \* the metadata written to metadata.json
    archive,           \* the .pyz file
    pipVenv,           \* the virtualenv get_pip() made for itself exists
    packError,         \* the exception that ended pack()
    packExit           \* the exit status of the packing process

packVars == <<ppc, packConfig, selection, scratch, staged, packMetadata, archive, pipVenv,
              packError, packExit>>

\* load_config, one call after the other in one process
VARIABLES
    BASEDIR,           \* the module's _BASEDIR
    CONFIGDIR,         \* the module's _CONFIGDIR
    yamlContent,       \* the configuration file of the last call, as YAML gave it
    loaded,            \* how the last call ended: the Config, or the errors
    configMetadata     \* prepare_metadata of the Config, once called

configVars == <<BASEDIR, CONFIGDIR, yamlContent, loaded, configMetadata>>

\* two invocations of run() at the same time, under one base directory
VARIABLES
    dirs,              \* every installation directory: is it there, what it holds
    procs,             \* every invocation: where it is, what it works on
    raceReqs,          \* the archives have requirement files
    initial            \* how the invocations found every directory

raceVars == <<dirs, procs, raceReqs, initial>>

vars == <<runVars, nameVars, cmdVars, mainVars, copyVars, packVars, configVars, raceVars>>

\* what a step of one part leaves alone: the variables of the other parts
exceptRun ==
    <<nameVars, cmdVars, mainVars, copyVars, packVars, configVars, raceVars>>
exceptName ==
    <<runVars, cmdVars, mainVars, copyVars, packVars, configVars, raceVars>>
exceptCmd ==
    <<runVars, nameVars, mainVars, copyVars, packVars, configVars, raceVars>>
exceptMain ==
    <<runVars, nameVars, cmdVars, copyVars, packVars, configVars, raceVars>>
exceptCopy ==
    <<runVars, nameVars, cmdVars, mainVars, packVars, configVars, raceVars>>
exceptPack ==
    <<runVars, nameVars, cmdVars, mainVars, copyVars, configVars, raceVars>>
exceptConfig ==
    <<runVars, nameVars, cmdVars, mainVars, copyVars, packVars, raceVars>>
exceptRace ==
    <<runVars, nameVars, cmdVars, mainVars, copyVars, packVars, configVars>>

\* ---------------------------------------------------------------- helpers
RECURSIVE SeqsUpTo(_, _)
SeqsUpTo(S, n) ==
    IF n = 0 THEN {<<>>}
    ELSE LET shorter == SeqsUpTo(S, n - 1)
         IN shorter \cup {Append(s, x) : s \in {t \in shorter : Len(t) = n - 1}, x \in S}

\* truthiness of `ephemeral` in "if ephemeral:" and "if ephemeral else"
Truthy(v) == v # EnvUnset /\ v # ""

Present(nd, e) == nd[e] # "absent"

DirState(ex, nd) ==
    IF ~ex THEN "absent"
    ELSE IF Present(nd, COMPLETE_FLAG_FILE) THEN "complete"
    ELSE "partial"

AllExtracted(nd) == \A i \in 1..Len(ArchiveMembers) : nd[ArchiveMembers[i]] = "full"

\* project_dir / "orig" / fname, as path components below the base directory
ProjectDir == <<"project_dir">>
OriginalProjectDir == ProjectDir \o <<"orig">>
VenvRequirements(rq) == [i \in 1..Len(rq) |-> OriginalProjectDir \o <<rq[i]>>]

\* find_venv_bin(venv_dir, "pip3")
PipExec == ProjectDir \o <<PROJECT_VENV_DIR, "bin", "pip3">>

\* mutant: only the first requirement file is passed
ReqArgsFirstOnly(paths) ==
    IF paths = <<>> THEN <<>> ELSE <<"-r", Head(paths)>>

RECURSIVE ReqArgs(_)
ReqArgs(paths) ==
    IF paths = <<>> THEN <<>>
    ELSE <<"-r", Head(paths)>> \o ReqArgs(Tail(paths))

InstallCmd(paths) == <<PipExec, "install">> \o ReqArgs(paths)

RunningPcs == {"setup_check", "rmtree_old", "mkdir", "extract", "venv_create",
               "install", "installing", "write_meta", "touch_flag", "setup_done",
               "payload", "eph_rmtree"}
EndedPcs == {"idle", "done", "crashed", "killed"}

\* ------------------------------------------------------------------- Init
InitRun ==
    /\ exists = FALSE
    /\ node = [e \in Entries |-> "absent"]
    /\ fresh = {}
    /\ rmCur = "none"
    /\ pc = "idle"
    /\ ephemeral = EnvUnset
    /\ reqs \in SeqsUpTo(ReqFiles, MaxReqs)
    /\ startState = "absent"
    /\ calls = [extract |-> 0, venv |-> 0]
    /\ installLog = <<>>
    /\ installerOutcome = "none"
    /\ payloadRc = NoRc
    /\ ret = NoRc
    /\ crash = "none"
    /\ prev = [outcome |-> "idle", ephemeral |-> FALSE, start |-> "absent",
               path |-> "none", installs |-> 0, installer |-> "none"]

\* ---------------------------------------------------------------- actions
\* run(), up to the call of setup_project_directory
StartRun(env) ==
    /\ pc \in EndedPcs
    /\ prev' = [outcome |-> pc, ephemeral |-> Truthy(ephemeral), start |-> startState,
                path |-> IF calls.extract > 0 THEN "full" ELSE "none",
                installs |-> Len(installLog), installer |-> installerOutcome]
    /\ ephemeral' = env
    /\ startState' = DirState(exists, node)
    /\ fresh' = {}
    /\ rmCur' = "none"
    /\ calls' = [extract |-> 0, venv |-> 0]
    /\ installLog' = <<>>
    /\ installerOutcome' = "none"
    /\ payloadRc' = NoRc
    /\ ret' = NoRc
    /\ crash' = "none"
    /\ pc' = "setup_check"
    /\ UNCHANGED <<exists, node, reqs>>

\* mutant: an incomplete directory is topped up instead of removed
SetupDecisionTopUp(ex, nd) ==
    IF ex
    THEN IF Present(nd, COMPLETE_FLAG_FILE) THEN "setup_done" ELSE "extract"
    ELSE "mkdir"

\* mutant: the completeness flag is not looked at
SetupDecisionNoReuse(ex, nd) ==
    IF ex THEN "rmtree_old" ELSE "mkdir"

\* mutant: a directory that is there is taken as set up
SetupDecisionTrustDir(ex, nd) ==
    IF ex THEN "setup_done" ELSE "mkdir"

\* where setup_project_directory goes after looking at the directory
SetupDecision(ex, nd) ==
    IF ex
    THEN IF Present(nd, COMPLETE_FLAG_FILE) THEN "setup_done" ELSE "rmtree_old"
    ELSE "mkdir"

SetupCheck ==
    /\ pc = "setup_check"
    /\ pc' = SetupDecision(exists, node)
    /\ UNCHANGED <<exists, node, fresh, rmCur, ephemeral, reqs, startState, calls,
                   installLog, installerOutcome, payloadRc, ret, crash, prev>>

\* mutant: shutil.rmtree empties the directory and leaves it there
RmtreeStepLeavesDir(next) ==
    /\ exists
    /\ IF \A e \in Entries : node[e] = "absent"
       THEN /\ pc' = next
            /\ UNCHANGED <<exists, node, rmCur>>
       ELSE /\ \E e \in {x \in Entries : Present(node, x)} :
                 /\ rmCur \in {"none", e}
                 /\ IF e \in DirEntries /\ rmCur = "none"
                    THEN /\ node' = [node EXCEPT ![e] = "partial"]
                         /\ rmCur' = e
                    ELSE /\ node' = [node EXCEPT ![e] = "absent"]
                         /\ rmCur' = "none"
            /\ UNCHANGED <<exists, pc>>
    /\ fresh' = {e \in fresh : Present(node', e)}

\* one step of shutil.rmtree(project_dir): entries go in the order os.scandir
\* gives them, a subtree is emptied before it is removed, the directory last
RmtreeStep(next) ==
    /\ exists
    /\ IF \A e \in Entries : node[e] = "absent"
       THEN /\ exists' = FALSE
            /\ pc' = next
            /\ UNCHANGED <<node, rmCur>>
       ELSE /\ \E e \in {x \in Entries : Present(node, x)} :
                 /\ rmCur \in {"none", e}
                 /\ IF e \in DirEntries /\ rmCur = "none"
                    THEN /\ node' = [node EXCEPT ![e] = "partial"]
                         /\ rmCur' = e
                    ELSE /\ node' = [node EXCEPT ![e] = "absent"]
                         /\ rmCur' = "none"
            /\ UNCHANGED <<exists, pc>>
    /\ fresh' = {e \in fresh : Present(node', e)}

RmtreeOld ==
    /\ pc = "rmtree_old"
    /\ RmtreeStep("mkdir")
    /\ UNCHANGED <<ephemeral, reqs, startState, calls, installLog, installerOutcome,
                   payloadRc, ret, crash, prev>>

Mkdir ==
    /\ pc = "mkdir"
    /\ IF exists
       THEN /\ crash' = "FileExistsError"
            /\ pc' = "crashed"
            /\ UNCHANGED exists
       ELSE /\ exists' = TRUE
            /\ pc' = "extract"
            /\ UNCHANGED crash
    /\ UNCHANGED <<node, fresh, rmCur, ephemeral, reqs, startState, calls,
                   installLog, installerOutcome, payloadRc, ret, prev>>

\* the next member zf.extractall has to write
NextMember(nd, fr) ==
    LET todo == {i \in 1..Len(ArchiveMembers) :
                    ArchiveMembers[i] \notin fr \/ nd[ArchiveMembers[i]] # "full"}
    IN ArchiveMembers[CHOOSE i \in todo : \A j \in todo : i <= j]

AfterExtract(rq) == IF rq # <<>> THEN "venv_create" ELSE "write_meta"

Extract ==
    /\ pc = "extract"
    /\ LET m == NextMember(node, fresh)
           st == IF m \in ArchiveDirs /\ m \notin fresh THEN "partial" ELSE "full"
           nd == [node EXCEPT ![m] = st]
       IN /\ node' = nd
          /\ fresh' = fresh \cup {m}
          /\ pc' = IF AllExtracted(nd) /\ \A i \in 1..Len(ArchiveMembers) :
                                              ArchiveMembers[i] \in fresh'
                   THEN AfterExtract(reqs) ELSE "extract"
    /\ calls' = [calls EXCEPT !.extract = 1]
    /\ UNCHANGED <<exists, rmCur, ephemeral, reqs, startState, installLog,
                   installerOutcome, payloadRc, ret, crash, prev>>

VenvCreate ==
    /\ pc = "venv_create"
    /\ IF node[PROJECT_VENV_DIR] = "absent"
       THEN /\ node' = [node EXCEPT ![PROJECT_VENV_DIR] = "partial"]
            /\ pc' = "venv_create"
       ELSE /\ node' = [node EXCEPT ![PROJECT_VENV_DIR] = "created"]
            /\ pc' = "install"
    /\ fresh' = fresh \cup {PROJECT_VENV_DIR}
    /\ calls' = [calls EXCEPT !.venv = 1]
    /\ UNCHANGED <<exists, rmCur, ephemeral, reqs, startState, installLog,
                   installerOutcome, payloadRc, ret, crash, prev>>

\* logged_exec(cmd): Popen either raises or starts the installer
InstallLaunch(launched) ==
    /\ pc = "install"
    /\ installLog' = Append(installLog, InstallCmd(VenvRequirements(reqs)))
    /\ IF launched
       THEN /\ pc' = "installing"
            /\ UNCHANGED <<installerOutcome, crash>>
       ELSE /\ installerOutcome' = "nolaunch"
            /\ crash' = "ExecutionError"
            /\ pc' = "crashed"
    /\ UNCHANGED <<exists, node, fresh, rmCur, ephemeral, reqs, startState, calls,
                   payloadRc, ret, prev>>

\* mutant: the installer's exit status is not looked at
AfterInstallerIgnored(retcode) == "write_meta"

\* what logged_exec does with the installer's exit status
AfterInstaller(retcode) == IF retcode # 0 THEN "crashed" ELSE "write_meta"

InstallWait(retcode) ==
    /\ pc = "installing"
    /\ pc' = AfterInstaller(retcode)
    /\ installerOutcome' = IF retcode # 0 THEN "nonzero" ELSE "ok"
    /\ crash' = IF pc' = "crashed" THEN "ExecutionError" ELSE crash
    /\ node' = IF retcode = 0 THEN [node EXCEPT ![PROJECT_VENV_DIR] = "installed"]
               ELSE node
    /\ UNCHANGED <<exists, fresh, rmCur, ephemeral, reqs, startState, calls,
                   installLog, payloadRc, ret, prev>>

WriteMeta ==
    /\ pc = "write_meta"
    /\ node' = [node EXCEPT ![UNPACKING_FILE] = "full"]
    /\ fresh' = fresh \cup {UNPACKING_FILE}
    /\ pc' = "touch_flag"
    /\ UNCHANGED <<exists, rmCur, ephemeral, reqs, startState, calls, installLog,
                   installerOutcome, payloadRc, ret, crash, prev>>

TouchFlag ==
    /\ pc = "touch_flag"
    /\ node' = [node EXCEPT ![COMPLETE_FLAG_FILE] = "full"]
    /\ fresh' = fresh \cup {COMPLETE_FLAG_FILE}
    /\ pc' = "setup_done"
    /\ UNCHANGED <<exists, rmCur, ephemeral, reqs, startState, calls, installLog,
                   installerOutcome, payloadRc, ret, crash, prev>>

\* run() from get_python_exec to the start of the payload: find_venv_bin raises
\* on a virtualenv without bin/, os.chdir on a missing orig/, subprocess.run on
\* a command that cannot be started
Launch(started) ==
    /\ pc = "setup_done"
    /\ IF node["orig"] = "absent"
       THEN /\ crash' = "FileNotFoundError"
            /\ pc' = "crashed"
       ELSE IF ~started
       THEN /\ crash' = "LaunchError"
            /\ pc' = "crashed"
       ELSE /\ pc' = "payload"
            /\ UNCHANGED crash
    /\ UNCHANGED <<exists, node, fresh, rmCur, ephemeral, reqs, startState, calls,
                   installLog, installerOutcome, payloadRc, ret, prev>>

\* mutant: the directory is kept whatever `ephemeral` says
AfterPayloadKeep(eph) == "done"

\* where run() goes once the payload has terminated
AfterPayload(eph) == IF Truthy(eph) THEN "eph_rmtree" ELSE "done"

PayloadExit(rc) ==
    /\ pc = "payload"
    /\ payloadRc' = rc
    /\ pc' = AfterPayload(ephemeral)
    /\ ret' = IF pc' = "done" THEN rc ELSE ret
    /\ UNCHANGED <<exists, node, fresh, rmCur, ephemeral, reqs, startState, calls,
                   installLog, installerOutcome, crash, prev>>

RmtreeEphemeral ==
    /\ pc = "eph_rmtree"
    /\ RmtreeStep("done")
    /\ ret' = IF pc' = "done" THEN payloadRc ELSE ret
    /\ UNCHANGED <<ephemeral, reqs, startState, calls, installLog, installerOutcome,
                   payloadRc, crash, prev>>

\* the operating environment terminates the process
Kill ==
    /\ pc \in RunningPcs
    /\ pc' = "killed"
    /\ UNCHANGED <<exists, node, fresh, rmCur, ephemeral, reqs, startState, calls,
                   installLog, installerOutcome, payloadRc, ret, crash, prev>>

\* ------------------------------------------------ installation identity
\* SHA-256's hex digest has 64 digits; the name keeps the first 20
DigestLen == 64
HashPrefixLen == 20

ByteValues == {0, 1}
HexDigit == <<"0", "1">>

ProjectNames == {"demo", "demo-x"}
Implementations == {"CPython", "PyPy"}
VersionTuples == {<<"3", "9", "1">>, <<"3", "10", "1">>, <<"3", "10", "2">>}
MagicNumbers == {"610d", "6f0d"}

RECURSIVE Zeros(_)
Zeros(n) == IF n <= 0 THEN "" ELSE "0" \o Zeros(n - 1)

RECURSIVE HexOfBytes(_)
HexOfBytes(bytes) ==
    IF bytes = <<>> THEN ""
    ELSE HexDigit[Head(bytes) + 1] \o HexOfBytes(Tail(bytes))

\* stands for hashlib.sha256(data).hexdigest(): 64 hex digits, different for
\* different data, and different within the first digits already
Sha256Hex(bytes) ==
    LET body == HexOfBytes(bytes) \o "f"
    IN body \o Zeros(DigestLen - Len(body))

\* get_file_hexdigest(filepath): the digest of the file's whole content
GetFileHexdigest(w, filepath) == Sha256Hex(w.files[filepath])

\* str.lower() on the names platform.python_implementation() returns
Lower(str) ==
    CASE str = "CPython" -> "cpython"
      [] str = "PyPy" -> "pypy"
      [] OTHER -> str

\* ".".join(parts)
RECURSIVE JoinDot(_)
JoinDot(parts) ==
    IF parts = <<>> THEN ""
    ELSE IF Len(parts) = 1 THEN parts[1]
    ELSE parts[1] \o "." \o JoinDot(Tail(parts))

\* mutant: only the major version goes into the name
BuildProjectInstallDirMajor(w, zip_path, md) ==
    md.project_name \o "-" \o SubSeq(GetFileHexdigest(w, zip_path), 1, HashPrefixLen)
        \o "-" \o Lower(w.implementation) \o "." \o JoinDot(SubSeq(w.version_tuple, 1, 1))
        \o "." \o w.magic

BuildProjectInstallDir(w, zip_path, md) ==
    LET project_name == md.project_name
        hexdigest == GetFileHexdigest(w, zip_path)
        file_hash_partial == SubSeq(hexdigest, 1, HashPrefixLen)
        py_impl == Lower(w.implementation)
        py_version == JoinDot(SubSeq(w.version_tuple, 1, 2))
    IN project_name \o "-" \o file_hash_partial \o "-" \o py_impl \o "." \o py_version
         \o "." \o w.magic

MaxArchiveLen == 1    \* longest archive content, in bytes

Archives == SeqsUpTo(ByteValues, MaxArchiveLen)

\* the places an invocation runs in: where the archive lies, the base
\* directory and the clock differ from one to the other
Surroundings ==
    { [zip_path |-> "/home/u/app.pyz", base_dir |-> "/home/u/.local/share/pyempaq", time |-> 1],
      [zip_path |-> "/tmp/copy.pyz", base_dir |-> "/srv/base", time |-> 2] }

Worlds ==
    { [zip_path |-> s.zip_path, base_dir |-> s.base_dir, time |-> s.time,
       files |-> [p \in {s.zip_path} |-> a],
       project_name |-> n, implementation |-> i, version_tuple |-> v, magic |-> m] :
         s \in Surroundings, a \in Archives, n \in ProjectNames,
         i \in Implementations, v \in VersionTuples, m \in MagicNumbers }

Sides == {1, 2}
NotComputed == "<not computed>"

NameIdle ==
    /\ world = <<>>
    /\ dirName = <<>>

InitName ==
    /\ world \in [Sides -> Worlds]
    /\ dirName = [i \in Sides |-> NotComputed]

\* run(), line 269: the name of the installation directory
ComputeName(i) ==
    /\ dirName # <<>>
    /\ dirName[i] = NotComputed
    /\ dirName' = [dirName EXCEPT ![i] =
           BuildProjectInstallDir(world[i], world[i].zip_path,
                                  [project_name |-> world[i].project_name])]
    /\ UNCHANGED world

\* ------------------------------------------- metadata and payload command
MaxArgs == 2          \* longest argument list (entrypoint, defaults, sys.argv[1:])

\* Python values: None, str, list of str, pathlib.Path
PyNone == [t |-> "none", s |-> "", l |-> <<>>]
PyStr(str) == [t |-> "str", s |-> str, l |-> <<>>]
PyList(items) == [t |-> "list", s |-> "", l |-> items]
PyPath(str) == [t |-> "path", s |-> str, l |-> <<>>]

ArgItems == {"a", "-b"}
ArgLists == SeqsUpTo(ArgItems, MaxArgs)
ScriptPaths == {"app.py", "src/app.py"}
ModuleNames == {"pkg", "pkg.mod"}
Uuids == {"u1", "u2"}
PythonExec == "python.exe"

\* repr() of a str without quotes or escapes in it
Repr(str) == "'" \o str \o "'"

\* ", ".join(repr(x) for x in items)
RECURSIVE JoinRepr(_)
JoinRepr(items) ==
    IF items = <<>> THEN ""
    ELSE IF Len(items) = 1 THEN Repr(items[1])
    ELSE Repr(items[1]) \o ", " \o JoinRepr(Tail(items))

\* str(value): of a str itself, of a Path its text, of a list "[...]" around
\* the repr of its items
Str(v) ==
    CASE v.t = "str" -> PyStr(v.s)
      [] v.t = "path" -> PyStr(v.s)
      [] v.t = "list" -> PyStr("[" \o JoinRepr(v.l) \o "]")
      [] OTHER -> PyStr("None")

\* the Configs load_config accepts with one exec variant set to a value
Execs ==
    {[script |-> PyPath(p), module |-> PyNone, entrypoint |-> PyNone] : p \in ScriptPaths}
    \cup {[script |-> PyNone, module |-> PyPath(m), entrypoint |-> PyNone] : m \in ModuleNames}
    \cup {[script |-> PyNone, module |-> PyNone, entrypoint |-> PyList(e)] : e \in ArgLists}

Configs ==
    { [name |-> "demo", requirements |-> <<PyPath("reqs1.txt")>>, dependencies |-> d,
       script |-> x.script, module |-> x.module, entrypoint |-> x.entrypoint,
       default_args |-> a, unpack_restrictions |-> PyNone] :
         x \in Execs, a \in ArgLists, d \in {<<>>, <<"pkg1", "pkg2">>} }

\* a key the dict does not have
NoKey == "<no key>"

\* the exec part prepare_metadata adds to the metadata
ExecOf(cfg) ==
    IF cfg.script.t # "none"
    THEN [exec_style |-> "script", exec_value |-> Str(cfg.script)]
    ELSE IF cfg.module.t # "none"
    THEN [exec_style |-> "module", exec_value |-> Str(cfg.module)]
    ELSE IF cfg.entrypoint.t # "none"
    THEN [exec_style |-> "entrypoint", exec_value |-> Str(cfg.entrypoint)]
    ELSE [exec_style |-> NoKey, exec_value |-> PyStr(NoKey)]

\* "\n".join(config.dependencies) + "\n"
RECURSIVE Lines(_)
Lines(items) ==
    IF items = <<>> THEN "\n"
    ELSE IF Len(items) = 1 THEN items[1] \o "\n"
    ELSE items[1] \o "\n" \o Lines(Tail(items))

\* dict(config.unpack_restrictions or {}), as a set of <<key, value>>
RestrictionsDict(r) ==
    IF r.t = "none" THEN {} ELSE {<<"minimum_python_version", r.s>>}

\* prepare_metadata(origdir, config): the metadata, and the file it writes
PrepareMetadata(cfg, uuid) ==
    LET unique_name == "pyempaq-autoreq-" \o uuid \o ".txt"
        req_files == [i \in 1..Len(cfg.requirements) |-> Str(cfg.requirements[i]).s]
        ex == ExecOf(cfg)
    IN [metadata |->
          [requirement_files |-> IF cfg.dependencies # <<>>
                                 THEN Append(req_files, unique_name) ELSE req_files,
           project_name |-> cfg.name,
           exec_default_args |-> cfg.default_args,
           unpack_restrictions |-> RestrictionsDict(cfg.unpack_restrictions),
           exec_style |-> ex.exec_style,
           exec_value |-> ex.exec_value],
        written |-> IF cfg.dependencies # <<>>
                    THEN [name |-> unique_name, text |-> Lines(cfg.dependencies)]
                    ELSE [name |-> "", text |-> ""]]

\* the metadata an archive may hold: exec_value a string for script and
\* module, a list of strings for entrypoint
Metadatas ==
    { [requirement_files |-> <<"reqs1.txt">>, project_name |-> "demo",
       exec_default_args |-> a, unpack_restrictions |-> {},
       exec_style |-> x[1], exec_value |-> x[2]] :
         a \in ArgLists,
         x \in ({"script"} \X {PyStr(p) : p \in ScriptPaths})
               \cup ({"module"} \X {PyStr(m) : m \in ModuleNames})
               \cup ({"entrypoint"} \X {PyList(e) : e \in ArgLists}) }

StrList(items) == [i \in 1..Len(items) |-> PyStr(items[i])]

\* mutant: the user's arguments are appended to the defaults
TailArgsMerged(md, sys_args) == md.exec_default_args \o sys_args

\* the trailing arguments build_command appends
TailArgs(md, sys_args) ==
    IF sys_args # <<>> THEN sys_args ELSE md.exec_default_args

\* build_command(python_exec, metadata, sys_args): list + str raises TypeError
BuildCommand(python_exec, md, sys_args) ==
    LET tail == StrList(TailArgs(md, sys_args))
    IN CASE md.exec_style = "script" ->
              [ok |-> TRUE, error |-> "",
               cmd |-> <<PyStr(python_exec), md.exec_value>> \o tail]
         [] md.exec_style = "module" ->
              [ok |-> TRUE, error |-> "",
               cmd |-> <<PyStr(python_exec), PyStr("-m"), md.exec_value>> \o tail]
         [] md.exec_style = "entrypoint" ->
              IF md.exec_value.t = "list"
              THEN [ok |-> TRUE, error |-> "",
                    cmd |-> <<PyStr(python_exec)>> \o StrList(md.exec_value.l) \o tail]
              ELSE [ok |-> FALSE, error |-> "TypeError", cmd |-> <<>>]
         [] OTHER -> [ok |-> FALSE, error |-> "UnboundLocalError", cmd |-> <<>>]

NoResult == [ok |-> FALSE, error |-> "<not called>", cmd |-> <<>>]
NoMetadata == [requirement_files |-> <<>>, project_name |-> "", exec_default_args |-> <<>>,
               unpack_restrictions |-> {}, exec_style |-> "", exec_value |-> PyNone]
NoFile == [name |-> "", text |-> ""]

CmdIdle ==
    /\ phase = "off"
    /\ config = <<>>
    /\ metadata = NoMetadata
    /\ metaSource = "none"
    /\ autoreq = NoFile
    /\ sysArgs = <<>>
    /\ result = NoResult

InitCmd ==
    /\ phase = "config"
    /\ config \in Configs
    /\ metadata = NoMetadata
    /\ metaSource = "none"
    /\ autoreq = NoFile
    /\ sysArgs = <<>>
    /\ result = NoResult

\* pack(): prepare_metadata, then json.dump into metadata.json
Pack(uuid) ==
    /\ phase = "config"
    /\ LET out == PrepareMetadata(config, uuid)
       IN /\ metadata' = out.metadata
          /\ autoreq' = out.written
    /\ metaSource' = "packed"
    /\ phase' = "metadata"
    /\ UNCHANGED <<config, sysArgs, result>>

\* run() on an archive whose metadata.json holds md
LoadMetadata(md) ==
    /\ phase = "config"
    /\ metadata' = md
    /\ metaSource' = "loaded"
    /\ config' = <<>>
    /\ phase' = "metadata"
    /\ UNCHANGED <<autoreq, sysArgs, result>>

\* run(), line 279
CallBuildCommand(args) ==
    /\ phase = "metadata"
    /\ sysArgs' = args
    /\ result' = BuildCommand(PythonExec, metadata, args)
    /\ phase' = "built"
    /\ UNCHANGED <<config, metadata, metaSource, autoreq>>

\* ------------------------------------------------ the launcher, end to end
\* FatalError.ReturnCode
RestrictionsNotMet == 64
UnpackBasedirMissing == 65
UnpackBasedirNotdir == 66

\* the exit status of an interpreter that ends on an uncaught exception
UncaughtExit == 1

EnvNames == {"PATH", "PYEMPAQ_IGNORE_RESTRICTIONS", "PYEMPAQ_UNPACK_BASE_PATH",
             "PYEMPAQ_EPHEMERAL", "PYEMPAQ_PYZ_PATH", "TEST_PYEMPAQ"}

\* os.environ.get(name, default)
EnvGet(env, name, default) == IF env[name] = EnvUnset THEN default ELSE env[name]

Char(str, i) == SubSeq(str, i, i)

\* str.split(sep), for a one-character sep
RECURSIVE SplitFrom(_, _, _, _)
SplitFrom(str, sep, i, cur) ==
    IF i > Len(str) THEN <<cur>>
    ELSE IF Char(str, i) = sep THEN <<cur>> \o SplitFrom(str, sep, i + 1, "")
    ELSE SplitFrom(str, sep, i + 1, cur \o Char(str, i))

Split(str, sep) == SplitFrom(str, sep, 1, "")

\* item in list
InList(item, list) == \E i \in 1..Len(list) : list[i] = item

\* int() of a string of digits
Digits == "0123456789"
DigitValue(c) == CHOOSE d \in 0..9 : Char(Digits, d + 1) = c

RECURSIVE ToInt(_)
ToInt(str) ==
    IF Len(str) = 0 THEN 0
    ELSE 10 * ToInt(SubSeq(str, 1, Len(str) - 1)) + DigitValue(Char(str, Len(str)))

\* version.parse(str).release, for a version made of numbers and dots
Release(str) ==
    LET parts == Split(str, ".")
    IN [i \in 1..Len(parts) |-> ToInt(parts[i])]

\* the comparison key of a release: trailing zeros do not count
RECURSIVE StripZeros(_)
StripZeros(rel) ==
    IF rel # <<>> /\ rel[Len(rel)] = 0
    THEN StripZeros(SubSeq(rel, 1, Len(rel) - 1))
    ELSE rel

\* a > b on tuples of integers
RECURSIVE TupleGreater(_, _)
TupleGreater(a, b) ==
    IF a = <<>> THEN FALSE
    ELSE IF b = <<>> THEN TRUE
    ELSE IF a[1] # b[1] THEN a[1] > b[1]
    ELSE TupleGreater(Tail(a), Tail(b))

\* mutant: a minimum equal to the running version is refused too
VersionGreaterOrEqual(a, b) ==
    ~TupleGreater(StripZeros(Release(b)), StripZeros(Release(a)))

\* version.parse(a) > version.parse(b)
VersionGreater(a, b) == TupleGreater(StripZeros(Release(a)), StripZeros(Release(b)))

\* a value of the metadata's JSON: null, or a dict as a set of <<key, value>>
JsonNull == [t |-> "none"]
JsonDict(pairs) == [t |-> "dict", d |-> pairs]

NoValue == "<None>"

\* dict.get(key)
DictGet(d, key) ==
    IF \E p \in d : p[1] = key THEN (CHOOSE p \in d : p[1] = key)[2] ELSE NoValue

FailedMsg(mpv) == "Failed to comply with version restriction: need at least Python " \o mpv

\* enforce_restrictions(version, restrictions): how it ends and what it logs
EnforceRestrictions(restr, env, current) ==
    IF restr.t = "none" \/ restr.d = {}
    THEN [raised |-> "none", code |-> NoRc, logs |-> <<>>]
    ELSE LET ignored_restrictions ==
                 Split(EnvGet(env, "PYEMPAQ_IGNORE_RESTRICTIONS", ""), ",")
             mpv == DictGet(restr.d, "minimum_python_version")
             checking == <<"info", "Checking minimum Python version: indicated="
                                   \o Repr(mpv) \o " current=" \o Repr(current)>>
         IN IF mpv = NoValue
            THEN [raised |-> "none", code |-> NoRc, logs |-> <<>>]
            ELSE IF ~VersionGreater(mpv, current)
            THEN [raised |-> "none", code |-> NoRc, logs |-> <<checking>>]
            ELSE IF InList("minimum-python-version", ignored_restrictions)
            THEN [raised |-> "none", code |-> NoRc,
                  logs |-> <<checking, <<"info", "(ignored) " \o FailedMsg(mpv)>>>>]
            ELSE [raised |-> "FatalError", code |-> RestrictionsNotMet,
                  logs |-> <<checking, <<"error", FailedMsg(mpv)>>>>]

\* the paths the launcher may touch
UserDataDir == "/home/u/.local/share"
DefaultBaseDir == UserDataDir \o "/pyempaq"
CustomBaseDir == "/srv/base"
InstallDirName == "demo-0f1e2d3c4b5a69788796-cpython.3.10"
PyzPath == "/apps/demo.pyz"

\* path / name
Join(dir, name) == dir \o "/" \o name

BaseDirs == {DefaultBaseDir, CustomBaseDir}
Paths == {UserDataDir} \cup BaseDirs \cup {Join(b, InstallDirName) : b \in BaseDirs}
Kinds == {"missing", "file", "dir"}
NoDir == "<no path>"

\* pathlib.Path(str): a trailing separator is not part of the path
ToPath(str) ==
    IF Len(str) > 1 /\ Char(str, Len(str)) = "/"
    THEN SubSeq(str, 1, Len(str) - 1)
    ELSE str

\* path.parent, inside Paths
Parent(p) ==
    IF p = DefaultBaseDir THEN UserDataDir
    ELSE IF p \in {Join(b, InstallDirName) : b \in BaseDirs}
    THEN CHOOSE b \in BaseDirs : Join(b, InstallDirName) = p
    ELSE NoDir

\* the file systems a run may start on: nothing lives under a path that is
\* not a directory, and an installation is a directory
Disks ==
    {d \in [Paths -> Kinds] :
        /\ \A p \in Paths : Parent(p) # NoDir /\ d[Parent(p)] # "dir" => d[p] = "missing"
        /\ \A b \in BaseDirs : d[Join(b, InstallDirName)] # "file"}

\* path.mkdir(parents=True, exist_ok=True), for a path whose parent is in Paths
MkdirParents(dk, p) ==
    IF dk[p] = "dir" THEN [raised |-> "none", disk |-> dk]
    ELSE IF dk[p] = "file" THEN [raised |-> "FileExistsError", disk |-> dk]
    ELSE IF dk[Parent(p)] = "file" THEN [raised |-> "NotADirectoryError", disk |-> dk]
    ELSE [raised |-> "none", disk |-> [dk EXCEPT ![Parent(p)] = "dir", ![p] = "dir"]]

\* mutant: a custom base directory that is missing is created
GetBaseDirCreating(env, dk) ==
    LET custom_basedir == env["PYEMPAQ_UNPACK_BASE_PATH"]
        basedir == IF custom_basedir = EnvUnset THEN DefaultBaseDir
                   ELSE ToPath(custom_basedir)
    IN IF dk[basedir] = "file"
       THEN [raised |-> "FatalError", code |-> UnpackBasedirNotdir,
             basedir |-> NoDir, disk |-> dk]
       ELSE [raised |-> "none", code |-> NoRc, basedir |-> basedir,
             disk |-> [dk EXCEPT ![basedir] = "dir"]]

\* get_base_dir(platformdirs): how it ends, what it returns, the disk it leaves
GetBaseDir(env, dk) ==
    LET custom_basedir == env["PYEMPAQ_UNPACK_BASE_PATH"]
    IN IF custom_basedir = EnvUnset
       THEN LET made == MkdirParents(dk, DefaultBaseDir)
            IN [raised |-> made.raised, code |-> NoRc,
                basedir |-> IF made.raised = "none" THEN DefaultBaseDir ELSE NoDir,
                disk |-> made.disk]
       ELSE LET basedir == ToPath(custom_basedir)
            IN IF dk[basedir] = "missing"
               THEN [raised |-> "FatalError", code |-> UnpackBasedirMissing,
                     basedir |-> NoDir, disk |-> dk]
               ELSE IF dk[basedir] # "dir"
               THEN [raised |-> "FatalError", code |-> UnpackBasedirNotdir,
                     basedir |-> NoDir, disk |-> dk]
               ELSE [raised |-> "none", code |-> NoRc, basedir |-> basedir, disk |-> dk]

\* find_venv_bin(project_dir / PROJECT_VENV_DIR, ...).parent, as a string
VenvBinDir(project_dir) == Join(Join(project_dir, PROJECT_VENV_DIR), "bin")

NoEnv == <<>>

\* mutant: the search path of the launcher is dropped
RunCommandEnvOverwrite(env, venv_bin_dir_str) ==
    [name \in EnvNames |->
        IF name = "PATH" THEN venv_bin_dir_str
        ELSE IF name = "PYEMPAQ_PYZ_PATH" THEN PyzPath
        ELSE env[name]]

\* run_command: the newenv given to subprocess.run
RunCommandEnv(env, venv_bin_dir_str) ==
    [name \in EnvNames |->
        IF name = "PATH"
        THEN IF env["PATH"] # EnvUnset
             THEN env["PATH"] \o ":" \o venv_bin_dir_str
             ELSE venv_bin_dir_str
        ELSE IF name = "PYEMPAQ_PYZ_PATH" THEN PyzPath
        ELSE env[name]]

\* mutant: a payload that fails is an error of the launcher
SubprocessRunChecked(status) ==
    IF status # 0
    THEN [raised |-> "CalledProcessError", returncode |-> NoRc]
    ELSE [raised |-> "none", returncode |-> status]

\* subprocess.run(cmd, env=newenv), once the payload has ended with `status`
SubprocessRun(status) == [raised |-> "none", returncode |-> status]

\* __main__: exit(rc) with run()'s value or the FatalError's code; any other
\* exception ends the interpreter
MainExit(exc, rc) ==
    IF exc \in {"none", "FatalError"} THEN rc % 256 ELSE UncaughtExit

\* mutant: the base directory is resolved before the restrictions are checked
RunOrderBaseDirFirst == <<"base_dir", "restrictions", "setup", "launch", "payload">>

\* the order of the steps of run()
RunOrder == <<"restrictions", "base_dir", "setup", "launch", "payload">>

StepAfter(step) ==
    LET i == CHOOSE k \in 1..Len(RunOrder) : RunOrder[k] = step
    IN RunOrder[i + 1]

\* the inputs of a run
PathValues == {EnvUnset, "", "/usr/bin:/bin"}
IgnoreValues == {EnvUnset, "minimum-python-version", "other,minimum-python-version",
                 "minimum_python_version"}
BasePathValues == {EnvUnset, CustomBaseDir, CustomBaseDir \o "/"}

Environs ==
    {e \in [EnvNames -> PathValues \cup IgnoreValues \cup BasePathValues
                        \cup {"1", "/old.pyz", "123"}] :
        /\ e["PATH"] \in PathValues
        /\ e["PYEMPAQ_IGNORE_RESTRICTIONS"] \in IgnoreValues
        /\ e["PYEMPAQ_UNPACK_BASE_PATH"] \in BasePathValues
        /\ e["PYEMPAQ_EPHEMERAL"] \in {EnvUnset, "1"}
        /\ e["PYEMPAQ_PYZ_PATH"] \in {EnvUnset, "/old.pyz"}
        /\ e["TEST_PYEMPAQ"] = "123"}

MinimumVersions == {"3.9", "3.10", "3.0009", "42"}
RunningVersions == {"3.9.1", "3.10.0"}

RestrictionSets ==
    {JsonNull, JsonDict({}), JsonDict({<<"future-restriction", "x">>})}
        \cup {JsonDict({<<"minimum_python_version", v>>}) : v \in MinimumVersions}

\* the exit statuses of a payload: the small ones, and one that is also a
\* FatalError code
PayloadStatuses == 0..MaxExit \cup {RestrictionsNotMet}

MainIdle ==
    /\ mpc = "idle"
    /\ environ = [name \in EnvNames |-> EnvUnset]
    /\ disk = [p \in Paths |-> "missing"]
    /\ restrictions = JsonNull
    /\ pythonVersion = "3.10.0"
    /\ baseDir = NoDir
    /\ childEnv = NoEnv
    /\ childStatus = NoRc
    /\ raised = "none"
    /\ exitCode = NoRc
    /\ logs = <<>>

InitMain ==
    /\ mpc = RunOrder[1]
    /\ environ \in Environs
    /\ disk \in Disks
    /\ restrictions \in RestrictionSets
    /\ pythonVersion \in RunningVersions
    /\ baseDir = NoDir
    /\ childEnv = NoEnv
    /\ childStatus = NoRc
    /\ raised = "none"
    /\ exitCode = NoRc
    /\ logs = <<>>

\* run() from the metadata to enforce_restrictions; a FatalError goes to
\* __main__, which exits with its code
EnforceRestrictionsStep ==
    /\ mpc = "restrictions"
    /\ LET r == EnforceRestrictions(restrictions, environ, pythonVersion)
       IN /\ logs' = r.logs
          /\ raised' = r.raised
          /\ IF r.raised = "none"
             THEN mpc' = StepAfter(mpc) /\ UNCHANGED exitCode
             ELSE mpc' = "exited" /\ exitCode' = MainExit(r.raised, r.code)
    /\ UNCHANGED <<environ, disk, restrictions, pythonVersion, baseDir, childEnv,
                   childStatus>>

\* run(): pyempaq_dir = get_base_dir(platformdirs)
GetBaseDirStep ==
    /\ mpc = "base_dir"
    /\ LET r == GetBaseDir(environ, disk)
       IN /\ disk' = r.disk
          /\ baseDir' = r.basedir
          /\ raised' = r.raised
          /\ IF r.raised = "none"
             THEN mpc' = StepAfter(mpc) /\ UNCHANGED exitCode
             ELSE mpc' = "exited" /\ exitCode' = MainExit(r.raised, r.code)
    /\ UNCHANGED <<environ, restrictions, pythonVersion, childEnv, childStatus, logs>>

\* run(): setup_project_directory on project_dir, taken as a whole: it leaves
\* the directory there, complete or, when it raises, as far as it got
SetupStep(ok) ==
    /\ mpc = "setup"
    /\ disk' = [disk EXCEPT ![Join(baseDir, InstallDirName)] = "dir"]
    /\ IF ok
       THEN mpc' = StepAfter(mpc) /\ UNCHANGED <<raised, exitCode>>
       ELSE /\ mpc' = "exited"
            /\ raised' = "ExecutionError"
            /\ exitCode' = MainExit("ExecutionError", NoRc)
    /\ UNCHANGED <<environ, restrictions, pythonVersion, baseDir, childEnv,
                   childStatus, logs>>

\* run() from get_python_exec to subprocess.run inside run_command; a command
\* that cannot be started raises OSError
LaunchStep(started) ==
    /\ mpc = "launch"
    /\ childEnv' = RunCommandEnv(environ, VenvBinDir(Join(baseDir, InstallDirName)))
    /\ IF started
       THEN mpc' = StepAfter(mpc) /\ UNCHANGED <<raised, exitCode>>
       ELSE /\ mpc' = "exited"
            /\ raised' = "OSError"
            /\ exitCode' = MainExit("OSError", NoRc)
    /\ UNCHANGED <<environ, disk, restrictions, pythonVersion, baseDir, childStatus,
                   logs>>

\* the payload ends with `status`: run_command returns, run() removes an
\* ephemeral installation and returns, __main__ exits
PayloadStep(status) ==
    /\ mpc = "payload"
    /\ childStatus' = status
    /\ mpc' = "exited"
    /\ LET proc == SubprocessRun(status)
       IN /\ raised' = proc.raised
          /\ exitCode' = MainExit(proc.raised, proc.returncode)
          /\ disk' = IF proc.raised = "none" /\ Truthy(environ["PYEMPAQ_EPHEMERAL"])
                     THEN [disk EXCEPT ![Join(baseDir, InstallDirName)] = "missing"]
                     ELSE disk
    /\ UNCHANGED <<environ, restrictions, pythonVersion, baseDir, childEnv, logs>>

\* -------------------------------------------------- copy_project, node by node
\* A path is the sequence of its components, "/" first when absolute.
Root == <<"/">>
SrcDir == <<"/", "src">>
TmpDir == <<"/", "tmp">>
DestDir == <<"/", "tmp", "orig">>
OutDir == <<"/", "out">>

\* what the disk holds at a path
NoEntry == [kind |-> "absent", mode |-> 0, content |-> "", target |-> <<>>, via |-> ""]
DirEntry(mode) == [kind |-> "dir", mode |-> mode, content |-> "", target |-> <<>>,
                   via |-> "mkdir"]
FileEntry(mode, content) == [kind |-> "file", mode |-> mode, content |-> content,
                             target |-> <<>>, via |-> "write"]
LinkEntry(target) == [kind |-> "symlink", mode |-> 0, content |-> "", target |-> target,
                      via |-> "symlink"]

Front(p) == SubSeq(p, 1, Len(p) - 1)
Last(p) == p[Len(p)]

\* path.parents
Parents(p) == {SubSeq(p, 1, n) : n \in 1..(Len(p) - 1)}

\* os.lstat on a path whose directories are already resolved
At(f, p) == IF p \in DOMAIN f THEN f[p] ELSE NoEntry

\* how many links a resolution follows before it gives up (ELOOP)
MaxLinks == 4

\* os.path.realpath: `done` is resolved, `rest` is still to walk
RECURSIVE Walk(_, _, _, _)
Walk(f, done, rest, fuel) ==
    IF rest = <<>> THEN done
    ELSE IF Head(rest) = ".." THEN Walk(f, Front(done), Tail(rest), fuel)
    ELSE LET p == Append(done, Head(rest))
         IN IF At(f, p).kind = "symlink" /\ fuel > 0
            THEN LET t == At(f, p).target
                 IN IF Head(t) = "/"
                    THEN Walk(f, Root, Tail(t) \o Tail(rest), fuel - 1)
                    ELSE Walk(f, done, t \o Tail(rest), fuel - 1)
            ELSE Walk(f, p, Tail(rest), fuel)

\* path.resolve()
RealPath(f, p) == Walk(f, Root, Tail(p), MaxLinks)

\* the path with its directories resolved and its last component as it is
LPath(f, p) == IF Len(p) = 1 THEN p ELSE Append(RealPath(f, Front(p)), Last(p))

IsSymlink(f, p) == At(f, LPath(f, p)).kind = "symlink"
IsDir(f, p) == At(f, RealPath(f, p)).kind = "dir"
IsFile(f, p) == At(f, RealPath(f, p)).kind = "file"
Exists(f, p) == At(f, RealPath(f, p)).kind # "absent"
LExists(f, p) == At(f, LPath(f, p)).kind # "absent"

\* the disk with `entry` at p, a path whose directories are resolved
Put(f, p, entry) == (p :> entry) @@ f

\* one octal digit of a mode, the bits of the mask cleared
MaskDigit(d, m) ==
    d - (IF (d \div 4) % 2 = 1 /\ (m \div 4) % 2 = 1 THEN 4 ELSE 0)
      - (IF (d \div 2) % 2 = 1 /\ (m \div 2) % 2 = 1 THEN 2 ELSE 0)
      - (IF d % 2 = 1 /\ m % 2 = 1 THEN 1 ELSE 0)

\* mode & ~mask, both written as three octal digits in decimal (755, 22)
Masked(mode, mask) ==
    100 * MaskDigit(mode \div 100, mask \div 100)
        + 10 * MaskDigit((mode \div 10) % 10, (mask \div 10) % 10)
        + MaskDigit(mode % 10, mask % 10)

\* path.mkdir(parents=True) on a missing path: the missing ancestors and the
\* path itself, with the default mode
RECURSIVE MkdirP(_, _, _)
MkdirP(f, p, mask) ==
    IF Exists(f, p) THEN f
    ELSE LET g == MkdirP(f, Front(p), mask)
         IN Put(g, LPath(g, p), DirEntry(Masked(777, mask)))

\* os.path.relpath(path, start)
RECURSIVE CommonLen(_, _)
CommonLen(a, b) ==
    IF a = <<>> \/ b = <<>> \/ Head(a) # Head(b) THEN 0
    ELSE 1 + CommonLen(Tail(a), Tail(b))

\* mutant: the path is taken from the source root, wherever `start` is
RelPathFromRoot(path, start) == SubSeq(path, Len(SrcDir) + 1, Len(path))

RelPath(path, start) ==
    LET n == CommonLen(path, start)
    IN [i \in 1..(Len(start) - n) |-> ".."] \o SubSeq(path, n + 1, Len(path))

\* "/".join(components)
RECURSIVE JoinSlash(_)
JoinSlash(p) ==
    IF p = <<>> THEN ""
    ELSE IF Len(p) = 1 THEN p[1]
    ELSE p[1] \o "/" \o JoinSlash(Tail(p))

\* pathlib.Path(str), relative: empty and "." components are dropped
PathOf(str) == SelectSeq(Split(str, "/"), LAMBDA c : c # "" /\ c # ".")

\* the names of the model's trees, in the order a directory listing sorts them
NameRank ==
    "a" :> 1 @@ "d" :> 2 @@ "f" :> 3 @@ "g" :> 4 @@ "k" :> 5 @@ "l" :> 6 @@ "m" :> 7
        @@ "x" :> 8

RECURSIVE Sorted(_, _)
Sorted(names, order) ==
    IF names = {} THEN <<>>
    ELSE LET n == CHOOSE n \in names :
                      \A o \in names : IF order = "asc" THEN NameRank[n] <= NameRank[o]
                                       ELSE NameRank[n] >= NameRank[o]
         IN <<n>> \o Sorted(names \ {n}, order)

\* os.scandir(dir): the names in dir, in the order the file system gives them
ListDir(f, dir, order) ==
    LET real == RealPath(f, dir)
    IN Sorted({Last(q) : q \in {p \in DOMAIN f :
                                   Len(p) = Len(real) + 1 /\ Front(p) = real
                                       /\ f[p].kind # "absent"}}, order)

\* how deep a recursive pattern goes
MaxDepth == 3

\* glob._rlistdir: every path under dir, a directory before what it holds,
\* symlinks to directories followed
RECURSIVE RListDir(_, _, _, _)
RECURSIVE RListNames(_, _, _, _, _)
RListDir(f, dir, order, fuel) == RListNames(f, dir, ListDir(f, dir, order), order, fuel)

RListNames(f, dir, names, order, fuel) ==
    IF names = <<>> THEN <<>>
    ELSE LET x == Head(names)
             below == IF IsDir(f, Append(dir, x)) /\ fuel > 0
                      THEN RListDir(f, Append(dir, x), order, fuel - 1)
                      ELSE <<>>
         IN <<<<x>>>> \o [i \in 1..Len(below) |-> <<x>> \o below[i]]
                \o RListNames(f, dir, Tail(names), order, fuel)

IsRecursive(pattern) ==
    \/ pattern = "**"
    \/ Len(pattern) > 2 /\ SubSeq(pattern, Len(pattern) - 2, Len(pattern)) = "/**"

\* glob.glob(pattern, recursive=True) in src_dir, for a literal path or a
\* path that ends in "**": the matches, spelled as glob spells them
Glob(f, pattern, order) ==
    IF IsRecursive(pattern)
    THEN LET prefix == SubSeq(pattern, 1, Len(pattern) - 2)
             dir == SrcDir \o PathOf(prefix)
         IN IF ~IsDir(f, dir) THEN <<>>
            ELSE LET below == RListDir(f, dir, order, MaxDepth)
                 IN (IF Len(prefix) = 0 THEN <<>> ELSE <<prefix>>)
                        \o [i \in 1..Len(below) |-> prefix \o JoinSlash(below[i])]
    ELSE IF LExists(f, SrcDir \o PathOf(pattern)) THEN <<pattern>> ELSE <<>>

\* included_nodes.update(dict.fromkeys(items)): new keys go last
RECURSIVE AddKeys(_, _)
AddKeys(keys, items) ==
    IF items = <<>> THEN keys
    ELSE AddKeys(IF InList(Head(items), keys) THEN keys ELSE Append(keys, Head(items)),
                 Tail(items))

\* the keys of included_nodes after the include patterns
RECURSIVE IncludedNodes(_, _, _, _)
IncludedNodes(f, patterns, order, keys) ==
    IF patterns = <<>> THEN keys
    ELSE IncludedNodes(f, Tail(patterns), order,
                       AddKeys(keys, Glob(f, Head(patterns), order)))

\* excluded_nodes: src_dir / path for every match of every exclude pattern
ExcludedNodes(f, patterns, order) ==
    UNION {LET items == Glob(f, patterns[k], order)
           IN {SrcDir \o PathOf(items[i]) : i \in 1..Len(items)} : k \in 1..Len(patterns)}

\* symlinked_dirs: the included nodes that are symlinks to directories
SymlinkedDirs(f, keys) ==
    {SrcDir \o PathOf(keys[i]) :
        i \in {j \in 1..Len(keys) : /\ IsDir(f, SrcDir \o PathOf(keys[j]))
                                    /\ IsSymlink(f, SrcDir \o PathOf(keys[j]))}}

\* mutant: only the node itself is looked up in excluded_nodes
SkippedNodeOnly(src_node, excluded, symlinked) ==
    \/ src_node \in excluded
    \/ \E parent \in Parents(src_node) : parent \in symlinked

\* the three tests that make the main loop pass over a node
Skipped(src_node, excluded, symlinked) ==
    \/ src_node \in excluded
    \/ \E parent \in Parents(src_node) : parent \in excluded
    \/ \E parent \in Parents(src_node) : parent \in symlinked

\* mutant: a link is kept wherever it leads
TargetsOutsideNever(real_pointed_node) == FALSE

\* src_dir not in real_pointed_node.parents
TargetsOutside(real_pointed_node) == SrcDir \notin Parents(real_pointed_node)

\* the errors os.link may end with, besides "none"
LinkErrors == {"EXDEV", "PermissionError", "EMLINK"}

\* mutant: every failure of os.link is answered with a copy
FallsBackAlways(error) == TRUE

\* the except clause of os.link: which errors lead to shutil.copy2
FallsBack(error) == error = "EXDEV" \/ error = "PermissionError"

\* shutil.copy2(src, dest): copyfile, then copystat
Copy2(src_entry, mask) ==
    LET copied == [kind |-> "file", mode |-> Masked(666, mask),
                   content |-> src_entry.content, target |-> <<>>, via |-> "copy"]
    IN [copied EXCEPT !.mode = src_entry.mode]

\* os.link(src, dest): the destination is the same file under a second name
HardLink(src_entry) == [src_entry EXCEPT !.via = "link"]

\* one turn of the main loop of copy_project on the key `node`: the disk it
\* leaves, the exception it raises, the calls it makes on the destination
\* with how each ended
ProcessNode(f, key, excluded, symlinked, link_error, mask) ==
    LET src_node == SrcDir \o PathOf(key)
        dest_node == DestDir \o PathOf(key)
    IN IF Skipped(src_node, excluded, symlinked)
       THEN [fs |-> f, error |-> "none", calls |-> <<>>]
       ELSE
       LET g == IF ~Exists(f, Front(dest_node))
                THEN MkdirP(f, Front(dest_node), mask) ELSE f
           dest == LPath(g, dest_node)
           real_pointed_node == RealPath(f, src_node)
           src_entry == At(f, real_pointed_node)
           linked == IF link_error # "none" THEN link_error
                     ELSE IF LExists(g, dest_node) THEN "FileExistsError"
                     ELSE "none"
       IN IF IsSymlink(f, src_node)
          THEN IF TargetsOutside(real_pointed_node)
               THEN [fs |-> g, error |-> "none", calls |-> <<>>]
               ELSE IF LExists(g, dest_node)
               THEN [fs |-> g, error |-> "FileExistsError",
                     calls |-> <<<<"symlink_to", "FileExistsError">>>>]
               ELSE [fs |-> Put(g, dest, LinkEntry(RelPath(real_pointed_node,
                                                           Front(src_node)))),
                     error |-> "none", calls |-> <<<<"symlink_to", "none">>>>]
          ELSE IF IsDir(f, src_node)
          THEN IF IsDir(g, dest_node)
               THEN [fs |-> g, error |-> "none", calls |-> <<<<"mkdir", "none">>>>]
               ELSE IF LExists(g, dest_node)
               THEN [fs |-> g, error |-> "FileExistsError",
                     calls |-> <<<<"mkdir", "FileExistsError">>>>]
               ELSE [fs |-> Put(g, dest, DirEntry(Masked(src_entry.mode, mask))),
                     error |-> "none", calls |-> <<<<"mkdir", "none">>>>]
          ELSE IF IsFile(f, src_node)
          THEN IF linked = "none"
               THEN [fs |-> Put(g, dest, HardLink(src_entry)), error |-> "none",
                     calls |-> <<<<"link", "none">>>>]
               ELSE IF FallsBack(linked)
               THEN [fs |-> Put(g, dest, Copy2(src_entry, mask)), error |-> "none",
                     calls |-> <<<<"link", linked>>, <<"copy2", "none">>>>]
               ELSE [fs |-> g, error |-> linked, calls |-> <<<<"link", linked>>>>]
          ELSE [fs |-> g, error |-> "none", calls |-> <<>>]

\* the source trees: f and a/d/g are files, a and a/d directories; l, m and
\* a/k are symlinks or missing; /out is outside the project
LinkChoices ==
    {<<t, <<>>>> : t \in {<<>>, SrcDir \o <<"f">>, SrcDir \o <<"a", "d">>,
                           OutDir \o <<"x">>, OutDir}}
        \cup {<<SrcDir \o <<"m">>, t>> : t \in {SrcDir \o <<"f">>, OutDir \o <<"x">>}}

OptionalLink(p, target) == IF target = <<>> THEN p :> NoEntry ELSE p :> LinkEntry(target)

SourceDisks ==
    {Root :> DirEntry(755) @@ SrcDir :> DirEntry(755) @@ TmpDir :> DirEntry(700)
        @@ OutDir :> DirEntry(755) @@ (OutDir \o <<"x">>) :> FileEntry(600, "secret")
        @@ (SrcDir \o <<"f">>) :> FileEntry(fm, "F")
        @@ (SrcDir \o <<"a">>) :> DirEntry(am)
        @@ (SrcDir \o <<"a", "d">>) :> DirEntry(755)
        @@ (SrcDir \o <<"a", "d", "g">>) :> FileEntry(644, "G")
        @@ OptionalLink(SrcDir \o <<"l">>, lm[1])
        @@ OptionalLink(SrcDir \o <<"m">>, lm[2])
        @@ OptionalLink(SrcDir \o <<"a", "k">>, k) :
        fm \in {644, 755}, am \in {700, 755, 775}, lm \in LinkChoices,
        k \in {<<>>, <<"..", "f">>, OutDir \o <<"x">>}}

IncludeLists ==
    {<<>>, <<"./**">>, <<"a/d/g">>, <<"a/d/g", "a">>, <<"a/**", "f">>, <<"l", "a/k">>,
     <<"l", "m">>, <<"./**", "f">>, <<"nothing", "./f">>}

ExcludeLists == {<<>>, <<"a">>, <<"a/d">>, <<"a/d/g", "l">>, <<"f", "a/k">>, <<"./**">>}

CopyIdle ==
    /\ cpc = "idle"
    /\ fs = Root :> DirEntry(755)
    /\ umask = 22
    /\ scanOrder = "asc"
    /\ include = <<>>
    /\ exclude = <<>>
    /\ includedNodes = <<>>
    /\ excludedNodes = {}
    /\ symlinkedDirs = {}
    /\ idx = 0
    /\ copyError = "none"
    /\ ops = <<>>

InitCopy ==
    /\ cpc = "start"
    /\ fs \in SourceDisks
    /\ umask = 22
    /\ scanOrder \in {"asc", "desc"}
    /\ include \in IncludeLists
    /\ exclude \in ExcludeLists
    /\ includedNodes = <<>>
    /\ excludedNodes = {}
    /\ symlinkedDirs = {}
    /\ idx = 0
    /\ copyError = "none"
    /\ ops = <<>>

\* copy_project up to the main loop: the three collections
SelectNodes ==
    /\ cpc = "start"
    /\ includedNodes' = IncludedNodes(fs, include, scanOrder, <<".">>)
    /\ excludedNodes' = ExcludedNodes(fs, exclude, scanOrder)
    /\ symlinkedDirs' = SymlinkedDirs(fs, includedNodes')
    /\ idx' = 1
    /\ cpc' = "loop"
    /\ UNCHANGED <<fs, umask, scanOrder, include, exclude, copyError, ops>>

\* the main loop on the next included node; the return after the last one
\* (os.link is only reached for a file, so only there can it fail)
CopyNode(link_error) ==
    /\ cpc = "loop"
    /\ link_error = "none" \/ IsFile(fs, SrcDir \o PathOf(includedNodes[idx]))
    /\ LET r == ProcessNode(fs, includedNodes[idx], excludedNodes, symlinkedDirs,
                            link_error, umask)
       IN /\ fs' = r.fs
          /\ copyError' = r.error
          /\ ops' = Append(ops, [node |-> includedNodes[idx], calls |-> r.calls])
          /\ IF r.error # "none" THEN cpc' = "failed" /\ UNCHANGED idx
             ELSE /\ idx' = idx + 1
                  /\ cpc' = IF idx' > Len(includedNodes) THEN "done" ELSE "loop"
    /\ UNCHANGED <<umask, scanOrder, include, exclude, includedNodes, excludedNodes,
                   symlinkedDirs>>

\* ------------------------------------------------------- pack, step by step
\* the files of the project; the requirement files are among them, as
\* load_config has checked
ProjectFiles == {"main.py"} \cup ReqFiles

PackConfigs ==
    {[name |-> "demo", requirements |-> [i \in 1..Len(rq) |-> PyPath(rq[i])],
      dependencies |-> d, script |-> PyPath("main.py"), module |-> PyNone,
      entrypoint |-> PyNone, default_args |-> <<>>, unpack_restrictions |-> PyNone] :
        rq \in SeqsUpTo(ReqFiles, MaxReqs), d \in {<<>>, <<"pkg1">>}}

NoArchive == [exists |-> FALSE, name |-> "", members |-> {}, metadata |-> NoMetadata]

PackIdle ==
    /\ ppc = "idle"
    /\ packConfig = <<>>
    /\ selection = {}
    /\ scratch = FALSE
    /\ staged = {}
    /\ packMetadata = NoMetadata
    /\ archive = NoArchive
    /\ pipVenv = FALSE
    /\ packError = "none"
    /\ packExit = NoRc

\* main() after load_config: the config is valid, nothing is on disk yet
InitPack ==
    /\ ppc = "start"
    /\ packConfig \in PackConfigs
    /\ selection \in {s \in SUBSET ProjectFiles : "main.py" \in s}
    /\ scratch = FALSE
    /\ staged = {}
    /\ packMetadata = NoMetadata
    /\ archive = NoArchive
    /\ pipVenv = FALSE
    /\ packError = "none"
    /\ packExit = NoRc

\* an exception leaves pack() and main(), which catches nothing here
PackRaises(error) ==
    /\ ppc' = "failed"
    /\ packError' = error
    /\ packExit' = UncaughtExit

\* pack(): tmpdir = Path(tempfile.mkdtemp())
PackMkdtemp ==
    /\ ppc = "start"
    /\ scratch' = TRUE
    /\ ppc' = "copy"
    /\ UNCHANGED <<packConfig, selection, staged, packMetadata, archive, pipVenv,
                   packError, packExit>>

\* pack(): copy_project into tmpdir / "orig"; the content the include and
\* exclude patterns select, or an exception on the way
PackCopyProject(ok) ==
    /\ ppc = "copy"
    /\ IF ok
       THEN /\ staged' = {"orig"} \cup {"orig/" \o f : f \in selection}
            /\ ppc' = "support"
            /\ UNCHANGED <<packError, packExit>>
       ELSE /\ staged' = {"orig"}
            /\ PackRaises("OSError")
    /\ UNCHANGED <<packConfig, selection, scratch, packMetadata, archive, pipVenv>>

\* pack(): pyempaq/common.py and __main__.py
PackSupportCode(ok) ==
    /\ ppc = "support"
    /\ IF ok
       THEN /\ staged' = staged \cup {"pyempaq", "pyempaq/common.py", "__main__.py"}
            /\ ppc' = "deps"
            /\ UNCHANGED <<packError, packExit>>
       ELSE /\ staged' = staged \cup {"pyempaq"}
            /\ PackRaises("OSError")
    /\ UNCHANGED <<packConfig, selection, scratch, packMetadata, archive, pipVenv>>

\* pack(): get_pip() (a virtualenv of its own when pip3 cannot be run), then
\* logged_exec of pip install --target=venv
PackInternalDeps(has_pip, ok) ==
    /\ ppc = "deps"
    /\ pipVenv' = ~has_pip
    /\ IF ok
       THEN /\ staged' = staged \cup {"venv"}
            /\ ppc' = "metadata"
            /\ UNCHANGED <<packError, packExit>>
       ELSE /\ UNCHANGED staged
            /\ PackRaises("ExecutionError")
    /\ UNCHANGED <<packConfig, selection, scratch, packMetadata, archive>>

\* pack(): prepare_metadata (which writes the file of the dependencies into
\* orig/) and json.dump into metadata.json
PackWriteMetadata(uuid, ok) ==
    /\ ppc = "metadata"
    /\ LET out == PrepareMetadata(packConfig, uuid)
           written == IF out.written.name = "" THEN {} ELSE {"orig/" \o out.written.name}
       IN IF ok
          THEN /\ staged' = staged \cup written \cup {"metadata.json"}
               /\ packMetadata' = out.metadata
               /\ ppc' = "archive"
               /\ UNCHANGED <<packError, packExit>>
          ELSE /\ staged' = staged \cup written
               /\ UNCHANGED packMetadata
               /\ PackRaises("OSError")
    /\ UNCHANGED <<packConfig, selection, scratch, archive, pipVenv>>

\* pack(): zipapp.create_archive(tmpdir, f"{config.name}.pyz")
PackCreateArchive(ok) ==
    /\ ppc = "archive"
    /\ IF ok
       THEN /\ archive' = [exists |-> TRUE, name |-> packConfig.name \o ".pyz",
                           members |-> staged, metadata |-> packMetadata]
            /\ ppc' = "cleanup"
            /\ UNCHANGED <<packError, packExit>>
       ELSE /\ UNCHANGED archive
            /\ PackRaises("ZipAppError")
    /\ UNCHANGED <<packConfig, selection, scratch, staged, packMetadata, pipVenv>>

\* pack(): shutil.rmtree(tmpdir), the return, and main()'s normal end
PackCleanup ==
    /\ ppc = "cleanup"
    /\ scratch' = FALSE
    /\ staged' = {}
    /\ ppc' = "returned"
    /\ packExit' = 0
    /\ UNCHANGED <<packConfig, selection, packMetadata, archive, pipVenv, packError>>

\* ------------------------------------------------ load_config, call by call
\* the disk load_config looks at: two projects, and in /a a link that leaves it
ConfigDisk ==
    Root :> DirEntry(755) @@ <<"/", "a">> :> DirEntry(755) @@ <<"/", "b">> :> DirEntry(755)
        @@ <<"/", "a", "main.py">> :> FileEntry(644, "A")
        @@ <<"/", "a", "reqs.txt">> :> FileEntry(644, "R")
        @@ <<"/", "a", "pkg">> :> DirEntry(755)
        @@ <<"/", "a", "esc">> :> LinkEntry(<<"/", "b", "only.py">>)
        @@ <<"/", "b", "only.py">> :> FileEntry(644, "B")

\* None, for a module variable that holds a path
NoPath == <<>>

\* a key the YAML mapping does not have
Missing == [t |-> "missing", s |-> "", l |-> <<>>]

\* str(path) of an absolute path
PathStr(p) == "/" \o JoinSlash(Tail(p))

\* value.is_absolute()
IsAbsolute(str) == Char(str, 1) = "/"

\* base / str, for a path `base`
Over(base, str) == IF IsAbsolute(str) THEN Root \o PathOf(str) ELSE base \o PathOf(str)

\* RelativePath.custom_validate on a str: "none", or the ValueError; None / value
\* is a TypeError, which pydantic takes as an error of the field
RelativePathError(value, basedir) ==
    IF IsAbsolute(value) THEN "path must be relative"
    ELSE IF basedir = NoPath THEN "TypeError"
    ELSE LET abs_path == basedir \o PathOf(value)
         IN IF ~Exists(ConfigDisk, abs_path) THEN "path not found"
            ELSE IF basedir \notin Parents(RealPath(ConfigDisk, abs_path))
            THEN "relative path must be inside the packed project"
            ELSE "none"

\* RelativeFile.custom_validate on a str
RelativeFileError(value, basedir) ==
    LET inherited == RelativePathError(value, basedir)
    IN IF inherited # "none" THEN inherited
       ELSE IF ~IsFile(ConfigDisk, basedir \o PathOf(value)) THEN "path must be a file"
       ELSE "none"

\* the validation of a field with default None: None passes as it is, a str
\* goes through the validators of its type
OptionalFieldError(v, file, basedir) ==
    IF v.t \in {"missing", "none"} THEN "none"
    ELSE IF v.t # "str" THEN "str type expected"
    ELSE IF file THEN RelativeFileError(v.s, basedir)
    ELSE RelativePathError(v.s, basedir)

\* entrypoint: List[StrictStr] = None
EntrypointError(v) ==
    IF v.t \in {"missing", "none", "list"} THEN "none" ELSE "value is not a valid list"

Subkeys == {"script", "module", "entrypoint"}

\* sum(x in values for x in subkeys)
SubkeyCount(values) == Cardinality({x \in Subkeys : values[x].t # "missing"})

\* Config.validate_exec_subkeys, then the fields of Executor: the errors
ExecErrors(values, basedir) ==
    IF SubkeyCount(values) = 0 THEN {"exec: need at least one of these subkeys"}
    ELSE IF SubkeyCount(values) > 1 THEN {"exec: only one of these subkeys is allowed"}
    ELSE {"exec.script: " \o OptionalFieldError(values.script, TRUE, basedir),
          "exec.module: " \o OptionalFieldError(values.module, FALSE, basedir),
          "exec.entrypoint: " \o EntrypointError(values.entrypoint)}
             \ {"exec.script: none", "exec.module: none", "exec.entrypoint: none"}

\* requirements: List[RelativeFile]
RequirementsErrors(items, basedir) ==
    {"requirements: " \o (IF items[i].t # "str" THEN "str type expected"
                          ELSE RelativeFileError(items[i].s, basedir)) :
         i \in 1..Len(items)} \ {"requirements: none"}

\* the basedir field: the path type first, then Config.ensure_basedir, which
\* sets _BASEDIR before it looks at the disk
EnsureBasedir(v, configdir, basedir) ==
    IF v.t \notin {"str", "path"}
    THEN [basedir |-> basedir, value |-> NoPath, errors |-> {"basedir: value is not a valid path"}]
    ELSE LET value == Over(configdir, v.s)
         IN [basedir |-> value, value |-> value,
             errors |-> IF ~Exists(ConfigDisk, value) THEN {"basedir: path not found"}
                        ELSE IF ~IsDir(ConfigDisk, value)
                        THEN {"basedir: path must be a directory"}
                        ELSE {}]

\* mutant: the fields that hold paths are validated before basedir
FieldsPathsFirst == <<"exec", "requirements", "basedir">>

\* the fields of Config that look at the disk, in the order of the class
Fields == <<"basedir", "exec", "requirements">>

\* Config.parse_obj(content): field after field, every error collected
RECURSIVE ValidateFields(_, _, _, _)
ValidateFields(c, fields, basedir, errors) ==
    IF fields = <<>> THEN [basedir |-> basedir, errors |-> errors]
    ELSE IF Head(fields) = "basedir"
    THEN LET r == EnsureBasedir(c.basedir, c.configdir, basedir)
         IN ValidateFields(c, Tail(fields), r.basedir, errors \cup r.errors)
    ELSE IF Head(fields) = "exec"
    THEN ValidateFields(c, Tail(fields), basedir, errors \cup ExecErrors(c, basedir))
    ELSE ValidateFields(c, Tail(fields), basedir,
                        errors \cup RequirementsErrors(c.requirements, basedir))

\* what a validated optional path field holds
FieldValue(v) == IF v.t = "str" THEN PyPath(v.s) ELSE IF v.t = "list" THEN v ELSE PyNone

\* the Config parse_obj returns
ParsedConfig(c) ==
    [name |-> "demo", basedir |-> Over(c.configdir, c.basedir.s),
     script |-> FieldValue(c.script), module |-> FieldValue(c.module),
     entrypoint |-> FieldValue(c.entrypoint), default_args |-> <<>>,
     requirements |-> [i \in 1..Len(c.requirements) |-> PyPath(c.requirements[i].s)],
     dependencies |-> <<>>, unpack_restrictions |-> PyNone]

NoConfig ==
    [name |-> "", basedir |-> NoPath, script |-> PyNone, module |-> PyNone,
     entrypoint |-> PyNone, default_args |-> <<>>, requirements |-> <<>>,
     dependencies |-> <<>>, unpack_restrictions |-> PyNone]

\* the exec mappings of the configuration files
ExecMappings ==
    {[script |-> s, module |-> Missing, entrypoint |-> Missing] :
        s \in {Missing, PyNone, PyStr("main.py"), PyStr("only.py"), PyStr("esc"),
               PyStr("/a/main.py"), PyStr("../b/only.py")}}
        \cup {[script |-> Missing, module |-> m, entrypoint |-> Missing] :
                m \in {PyNone, PyStr("pkg")}}
        \cup {[script |-> Missing, module |-> Missing, entrypoint |-> PyList(<<"a">>)]}
        \cup {[script |-> PyStr("main.py"), module |-> PyNone, entrypoint |-> Missing]}

\* basedir: not given, a directory, a missing path, a list
BasedirValues == {Missing, PyStr("/a"), PyStr("/nowhere"), PyList(<<>>)}

RequirementLists == {<<>>, <<PyStr("reqs.txt")>>}

ConfigDirs == {<<"/", "a">>, <<"/", "b">>}

\* the configuration files: where the file is, and what yaml.safe_load gives
Contents ==
    {[configdir |-> d, basedir |-> b, script |-> x.script, module |-> x.module,
      entrypoint |-> x.entrypoint, requirements |-> r] :
        d \in ConfigDirs, b \in BasedirValues, x \in ExecMappings,
        r \in RequirementLists}

NoContent ==
    [configdir |-> NoPath, basedir |-> Missing, script |-> Missing, module |-> Missing,
     entrypoint |-> Missing, requirements |-> <<>>]

\* how a call ended, and the _BASEDIR it started with
NotLoaded == [status |-> "none", config |-> NoConfig, errors |-> {}, before |-> NoPath]

ConfigIdle ==
    /\ BASEDIR = NoPath
    /\ CONFIGDIR = NoPath
    /\ yamlContent = NoContent
    /\ loaded = NotLoaded
    /\ configMetadata = NoMetadata

InitConfig == ConfigIdle

\* load_config(path) on a path without a configuration file
LoadConfigNotFound(configdir) ==
    /\ CONFIGDIR' = configdir
    /\ yamlContent' = NoContent
    /\ configMetadata' = NoMetadata
    /\ loaded' = [status |-> "rejected", config |-> NoConfig,
                  errors |-> {"Configuration file not found"}, before |-> BASEDIR]
    /\ UNCHANGED BASEDIR

\* load_config(path) on a configuration file; the default of basedir is the
\* directory of the file
LoadConfig(c) ==
    LET given == IF c.basedir.t = "missing"
                 THEN [c EXCEPT !.basedir = PyPath(PathStr(c.configdir))] ELSE c
        r == ValidateFields(given, Fields, BASEDIR, {})
    IN /\ CONFIGDIR' = c.configdir
       /\ yamlContent' = c
       /\ configMetadata' = NoMetadata
       /\ BASEDIR' = r.basedir
       /\ loaded' = IF r.errors = {}
                    THEN [status |-> "accepted", config |-> ParsedConfig(given),
                          errors |-> {}, before |-> BASEDIR]
                    ELSE [status |-> "rejected", config |-> NoConfig, errors |-> r.errors,
                          before |-> BASEDIR]

\* main(): pack(config) comes to prepare_metadata with the Config load_config gave
PrepareConfigMetadata(uuid) ==
    /\ loaded.status = "accepted"
    /\ configMetadata = NoMetadata
    /\ configMetadata' = PrepareMetadata(loaded.config, uuid).metadata
    /\ UNCHANGED <<BASEDIR, CONFIGDIR, yamlContent, loaded>>

\* ------------------------------------- two invocations under one base directory
Procs == {1, 2}

\* the installation directories under the base directory, by name
Identities == {"id1", "id2"}

\* what an installation directory holds; orig stands for all that extractall
\* brings out
RaceEntries == {"orig", PROJECT_VENV_DIR, UNPACKING_FILE, COMPLETE_FLAG_FILE}

\* mutant: every archive is given the same directory
RaceProjectDirShared(identity) == "id1"

\* project_dir = pyempaq_dir / build_project_install_dir(...): the directory
\* of an identity is the one of its name
RaceProjectDir(identity) == identity

\* what the payload needs in the directory
Needed(with_reqs) == IF with_reqs THEN {"orig", PROJECT_VENV_DIR} ELSE {"orig"}

NotYet == {"<not yet>"}

AbsentDir == [exists |-> FALSE, entries |-> {}]

\* the directory as earlier runs may have left it
LeftDir(state, with_reqs) ==
    IF state = "absent" THEN AbsentDir
    ELSE IF state = "partial" THEN [exists |-> TRUE, entries |-> {"orig"}]
    ELSE [exists |-> TRUE,
          entries |-> Needed(with_reqs) \cup {UNPACKING_FILE, COMPLETE_FLAG_FILE}]

\* an invocation that has come to setup_project_directory
NewProc ==
    [pc |-> "check_dir", identity |-> "id1", ephemeral |-> FALSE, listing |-> {},
     crash |-> "none", hit |-> "none", atMark |-> NotYet, atLaunch |-> NotYet]

RaceIdle ==
    /\ dirs = [d \in Identities |-> AbsentDir]
    /\ procs = [i \in Procs |-> NewProc]
    /\ raceReqs = FALSE
    /\ initial = [d \in Identities |-> "absent"]

\* invocation 1 runs the archive of id1, ephemeral or not; invocation 2 the
\* same archive or the one of id2
InitRace ==
    /\ raceReqs \in BOOLEAN
    /\ initial \in {[id1 |-> a, id2 |-> b] : a \in {"absent", "partial", "complete"},
                                            b \in {"absent", "complete"}}
    /\ dirs = [d \in Identities |-> LeftDir(initial[d], raceReqs)]
    /\ procs \in {[i \in Procs |-> [NewProc EXCEPT !.identity = IF i = 1 THEN "id1" ELSE id,
                                                     !.ephemeral = (i = 1 /\ eph)]] :
                     id \in Identities, eph \in BOOLEAN}

\* the directory invocation i works in
DirOf(i) == RaceProjectDir(procs[i].identity)

\* from the first look at the directory to the start of the payload
BusyPcs == {"check_dir", "check_flag", "rm_list", "rm_items", "mkdir", "extract",
            "venv_create", "install", "write_meta", "touch_flag", "setup_done"}

\* invocation i goes to `next`
Goes(i, next) == [procs EXCEPT ![i].pc = next]

\* invocation i ends on an exception
Raises(i, error) == [procs EXCEPT ![i].pc = "crashed", ![i].crash = error]

\* p, with the invocations that are busy in directory d told that invocation
\* i has removed something from it
Hits(p, i, d) ==
    [j \in Procs |->
        IF j # i /\ RaceProjectDir(p[j].identity) = d /\ p[j].pc \in BusyPcs
               /\ p[j].hit = "none"
        THEN [p[j] EXCEPT !.hit = IF procs[i].pc \in {"rm_list", "rm_items"}
                                  THEN "recovery" ELSE "ephemeral"]
        ELSE p[j]]

\* if project_dir.exists():
RaceCheckDir(i) ==
    /\ procs[i].pc = "check_dir"
    /\ procs' = Goes(i, IF dirs[DirOf(i)].exists THEN "check_flag" ELSE "mkdir")
    /\ UNCHANGED <<dirs, raceReqs, initial>>

\* mutant: a directory that is there is reused, flag or no flag
AfterFlagCheckTrusting(flag_there) == "setup_done"

\* with the flag setup_project_directory returns, without it the directory
\* is removed
AfterFlagCheck(flag_there) == IF flag_there THEN "setup_done" ELSE "rm_list"

\* if (project_dir / COMPLETE_FLAG_FILE).exists():
RaceCheckFlag(i) ==
    /\ procs[i].pc = "check_flag"
    /\ procs' = Goes(i, AfterFlagCheck(COMPLETE_FLAG_FILE \in dirs[DirOf(i)].entries))
    /\ UNCHANGED <<dirs, raceReqs, initial>>

\* shutil.rmtree(project_dir), the listing: os.scandir is read once
RaceRmtreeList(i) ==
    /\ procs[i].pc \in {"rm_list", "eph_list"}
    /\ IF ~dirs[DirOf(i)].exists
       THEN procs' = Raises(i, "FileNotFoundError")
       ELSE procs' = [procs EXCEPT ![i].listing = dirs[DirOf(i)].entries,
                                 ![i].pc = IF @ = "rm_list" THEN "rm_items" ELSE "eph_items"]
    /\ UNCHANGED <<dirs, raceReqs, initial>>

\* shutil.rmtree(project_dir), the removals: every listed entry, then the
\* directory, which must be there and empty
RaceRmtreeItem(i) ==
    /\ procs[i].pc \in {"rm_items", "eph_items"}
    /\ LET d == DirOf(i)
       IN IF procs[i].listing # {}
          THEN \E e \in procs[i].listing :
                   IF e \notin dirs[d].entries
                   THEN /\ procs' = Raises(i, "FileNotFoundError")
                        /\ UNCHANGED dirs
                   ELSE /\ dirs' = [dirs EXCEPT ![d].entries = @ \ {e}]
                        /\ procs' = Hits([procs EXCEPT ![i].listing = @ \ {e}], i, d)
          ELSE IF ~dirs[d].exists
          THEN /\ procs' = Raises(i, "FileNotFoundError")
               /\ UNCHANGED dirs
          ELSE IF dirs[d].entries # {}
          THEN /\ procs' = Raises(i, "OSError")
               /\ UNCHANGED dirs
          ELSE /\ dirs' = [dirs EXCEPT ![d].exists = FALSE]
               /\ procs' = Hits(Goes(i, IF procs[i].pc = "rm_items" THEN "mkdir" ELSE "done"),
                               i, d)
    /\ UNCHANGED <<raceReqs, initial>>

\* project_dir.mkdir()
RaceMkdir(i) ==
    /\ procs[i].pc = "mkdir"
    /\ IF dirs[DirOf(i)].exists
       THEN /\ procs' = Raises(i, "FileExistsError")
            /\ UNCHANGED dirs
       ELSE /\ dirs' = [dirs EXCEPT ![DirOf(i)].exists = TRUE]
            /\ procs' = Goes(i, "extract")
    /\ UNCHANGED <<raceReqs, initial>>

\* zf.extractall(path=project_dir): the directories on the way are made
RaceExtract(i) ==
    /\ procs[i].pc = "extract"
    /\ dirs' = [dirs EXCEPT ![DirOf(i)] = [exists |-> TRUE, entries |-> @.entries \cup {"orig"}]]
    /\ procs' = Goes(i, IF raceReqs THEN "venv_create" ELSE "write_meta")
    /\ UNCHANGED <<raceReqs, initial>>

\* venv.create(venv_dir, with_pip=True): the directories on the way are made
RaceVenvCreate(i) ==
    /\ procs[i].pc = "venv_create"
    /\ dirs' = [dirs EXCEPT ![DirOf(i)] =
                   [exists |-> TRUE, entries |-> @.entries \cup {PROJECT_VENV_DIR}]]
    /\ procs' = Goes(i, "install")
    /\ UNCHANGED <<raceReqs, initial>>

\* find_venv_bin and logged_exec(cmd): pip must be there, and the requirement
\* files under orig/
RaceInstall(i, ok) ==
    /\ procs[i].pc = "install"
    /\ procs' = IF PROJECT_VENV_DIR \notin dirs[DirOf(i)].entries
               THEN Raises(i, "FileNotFoundError")
               ELSE IF "orig" \notin dirs[DirOf(i)].entries \/ ~ok
               THEN Raises(i, "ExecutionError")
               ELSE Goes(i, "write_meta")
    /\ UNCHANGED <<dirs, raceReqs, initial>>

\* (project_dir / "unpacking.json").write_text(...)
RaceWriteMeta(i) ==
    /\ procs[i].pc = "write_meta"
    /\ IF ~dirs[DirOf(i)].exists
       THEN /\ procs' = Raises(i, "FileNotFoundError")
            /\ UNCHANGED dirs
       ELSE /\ dirs' = [dirs EXCEPT ![DirOf(i)].entries = @ \cup {UNPACKING_FILE}]
            /\ procs' = Goes(i, "touch_flag")
    /\ UNCHANGED <<raceReqs, initial>>

\* (project_dir / COMPLETE_FLAG_FILE).touch()
RaceTouchFlag(i) ==
    /\ procs[i].pc = "touch_flag"
    /\ IF ~dirs[DirOf(i)].exists
       THEN /\ procs' = Raises(i, "FileNotFoundError")
            /\ UNCHANGED dirs
       ELSE /\ dirs' = [dirs EXCEPT ![DirOf(i)].entries = @ \cup {COMPLETE_FLAG_FILE}]
            /\ procs' = [procs EXCEPT ![i].pc = "setup_done",
                                    ![i].atMark = dirs[DirOf(i)].entries]
    /\ UNCHANGED <<raceReqs, initial>>

\* run() from get_python_exec to subprocess.run: os.chdir needs orig/
RaceLaunch(i, started) ==
    /\ procs[i].pc = "setup_done"
    /\ procs' = IF "orig" \notin dirs[DirOf(i)].entries THEN Raises(i, "FileNotFoundError")
               ELSE IF ~started THEN Raises(i, "LaunchError")
               ELSE [procs EXCEPT ![i].pc = "payload",
                                 ![i].atLaunch = dirs[DirOf(i)].entries]
    /\ UNCHANGED <<dirs, raceReqs, initial>>

\* the payload terminates: if ephemeral: shutil.rmtree(project_dir)
RacePayloadExit(i) ==
    /\ procs[i].pc = "payload"
    /\ procs' = Goes(i, IF procs[i].ephemeral THEN "eph_list" ELSE "done")
    /\ UNCHANGED <<dirs, raceReqs, initial>>

\* ------------------------------------------------------- specifications
Init ==
    /\ InitRun /\ NameIdle /\ CmdIdle /\ MainIdle /\ CopyIdle /\ PackIdle
    /\ ConfigIdle /\ RaceIdle

Next ==
    \/ \E env \in EphemeralValues : StartRun(env) /\ UNCHANGED exceptRun
    \/ SetupCheck /\ UNCHANGED exceptRun
    \/ RmtreeOld /\ UNCHANGED exceptRun
    \/ Mkdir /\ UNCHANGED exceptRun
    \/ Extract /\ UNCHANGED exceptRun
    \/ VenvCreate /\ UNCHANGED exceptRun
    \/ \E launched \in BOOLEAN : InstallLaunch(launched) /\ UNCHANGED exceptRun
    \/ \E retcode \in 0..MaxExit : InstallWait(retcode) /\ UNCHANGED exceptRun
    \/ WriteMeta /\ UNCHANGED exceptRun
    \/ TouchFlag /\ UNCHANGED exceptRun
    \/ \E started \in BOOLEAN : Launch(started) /\ UNCHANGED exceptRun
    \/ \E rc \in 0..MaxExit : PayloadExit(rc) /\ UNCHANGED exceptRun
    \/ RmtreeEphemeral /\ UNCHANGED exceptRun
    \/ Kill /\ UNCHANGED exceptRun

Spec == Init /\ [][Next]_vars

\* the installation directory stays as Init leaves it
RunIdle == InitRun /\ reqs = <<>>

InitNameSpec ==
    RunIdle /\ InitName /\ CmdIdle /\ MainIdle /\ CopyIdle /\ PackIdle /\ ConfigIdle /\ RaceIdle

NextName == \E i \in Sides : ComputeName(i) /\ UNCHANGED exceptName

SpecName == InitNameSpec /\ [][NextName]_vars

InitCmdSpec ==
    RunIdle /\ NameIdle /\ InitCmd /\ MainIdle /\ CopyIdle /\ PackIdle /\ ConfigIdle /\ RaceIdle

NextCmd ==
    \/ \E uuid \in Uuids : Pack(uuid) /\ UNCHANGED exceptCmd
    \/ \E md \in Metadatas : LoadMetadata(md) /\ UNCHANGED exceptCmd
    \/ \E args \in ArgLists : CallBuildCommand(args) /\ UNCHANGED exceptCmd

SpecCmd == InitCmdSpec /\ [][NextCmd]_vars

InitMainSpec ==
    RunIdle /\ NameIdle /\ CmdIdle /\ InitMain /\ CopyIdle /\ PackIdle /\ ConfigIdle /\ RaceIdle

NextMain ==
    \/ EnforceRestrictionsStep /\ UNCHANGED exceptMain
    \/ GetBaseDirStep /\ UNCHANGED exceptMain
    \/ \E ok \in BOOLEAN : SetupStep(ok) /\ UNCHANGED exceptMain
    \/ \E started \in BOOLEAN : LaunchStep(started) /\ UNCHANGED exceptMain
    \/ \E status \in PayloadStatuses : PayloadStep(status)
                                          /\ UNCHANGED exceptMain

SpecMain == InitMainSpec /\ [][NextMain]_vars

InitCopySpec ==
    RunIdle /\ NameIdle /\ CmdIdle /\ MainIdle /\ InitCopy /\ PackIdle /\ ConfigIdle /\ RaceIdle

NextCopy ==
    \/ SelectNodes /\ UNCHANGED exceptCopy
    \/ \E link_error \in {"none"} \cup LinkErrors :
           CopyNode(link_error) /\ UNCHANGED exceptCopy

SpecCopy == InitCopySpec /\ [][NextCopy]_vars

InitPackSpec ==
    RunIdle /\ NameIdle /\ CmdIdle /\ MainIdle /\ CopyIdle /\ InitPack /\ ConfigIdle /\ RaceIdle

NextPack ==
    \/ PackMkdtemp /\ UNCHANGED exceptPack
    \/ \E ok \in BOOLEAN : PackCopyProject(ok) /\ UNCHANGED exceptPack
    \/ \E ok \in BOOLEAN : PackSupportCode(ok) /\ UNCHANGED exceptPack
    \/ \E has_pip, ok \in BOOLEAN :
           PackInternalDeps(has_pip, ok) /\ UNCHANGED exceptPack
    \/ \E uuid \in Uuids, ok \in BOOLEAN :
           PackWriteMetadata(uuid, ok) /\ UNCHANGED exceptPack
    \/ \E ok \in BOOLEAN : PackCreateArchive(ok) /\ UNCHANGED exceptPack
    \/ PackCleanup /\ UNCHANGED exceptPack

SpecPack == InitPackSpec /\ [][NextPack]_vars

InitConfigSpec ==
    RunIdle /\ NameIdle /\ CmdIdle /\ MainIdle /\ CopyIdle /\ PackIdle /\ InitConfig /\ RaceIdle

NextConfig ==
    \/ \E c \in Contents : LoadConfig(c) /\ UNCHANGED exceptConfig
    \/ \E d \in ConfigDirs : LoadConfigNotFound(d) /\ UNCHANGED exceptConfig
    \/ \E uuid \in {"u1"} : PrepareConfigMetadata(uuid) /\ UNCHANGED exceptConfig

SpecConfig == InitConfigSpec /\ [][NextConfig]_vars

InitRaceSpec ==
    /\ RunIdle /\ NameIdle /\ CmdIdle /\ MainIdle /\ CopyIdle /\ PackIdle
    /\ ConfigIdle /\ InitRace

NextRace ==
    \/ \E i \in Procs : RaceCheckDir(i) /\ UNCHANGED exceptRace
    \/ \E i \in Procs : RaceCheckFlag(i) /\ UNCHANGED exceptRace
    \/ \E i \in Procs : RaceRmtreeList(i) /\ UNCHANGED exceptRace
    \/ \E i \in Procs : RaceRmtreeItem(i) /\ UNCHANGED exceptRace
    \/ \E i \in Procs : RaceMkdir(i) /\ UNCHANGED exceptRace
    \/ \E i \in Procs : RaceExtract(i) /\ UNCHANGED exceptRace
    \/ \E i \in Procs : RaceVenvCreate(i) /\ UNCHANGED exceptRace
    \/ \E i \in Procs, ok \in BOOLEAN : RaceInstall(i, ok) /\ UNCHANGED exceptRace
    \/ \E i \in Procs : RaceWriteMeta(i) /\ UNCHANGED exceptRace
    \/ \E i \in Procs : RaceTouchFlag(i) /\ UNCHANGED exceptRace
    \/ \E i \in Procs, started \in BOOLEAN : RaceLaunch(i, started) /\ UNCHANGED exceptRace
    \/ \E i \in Procs : RacePayloadExit(i) /\ UNCHANGED exceptRace

SpecRace == InitRaceSpec /\ [][NextRace]_vars

\* ------------------------------------------------------------------ claims
Complete(nd, rq) ==
    /\ AllExtracted(nd)
    /\ rq # <<>> => nd[PROJECT_VENV_DIR] = "installed"
    /\ nd[UNPACKING_FILE] = "full"
    /\ nd[COMPLETE_FLAG_FILE] = "full"

OnlyFresh == \A e \in Entries : Present(node, e) => e \in fresh

InstallerFailed(o) == o \in {"nolaunch", "nonzero"}

\* a step of setup_project_directory in which nothing fails
SetupProgress ==
    \/ SetupCheck
    \/ RmtreeOld
    \/ Mkdir
    \/ Extract
    \/ VenvCreate
    \/ InstallLaunch(TRUE)
    \/ InstallWait(0)
    \/ WriteMeta
    \/ TouchFlag

SetupPcs == {"setup_check", "rmtree_old", "mkdir", "extract", "venv_create",
             "install", "installing", "write_meta", "touch_flag"}

\* C1: in every reachable state, if complete.flag is present then the archive
\* content is fully extracted, the dependency environment is provisioned when
\* the requirement list is non-empty, and unpacking.json is written.
C1_MarkerImpliesComplete ==
    Present(node, COMPLETE_FLAG_FILE) => Complete(node, reqs)

\* C2: a run that finds the directory present without the marker deletes the
\* whole directory before doing anything else (at mkdir nothing is left, and
\* from then on every entry is one this run wrote), can always take its next
\* step, and when setup returns the directory is Complete; a run that is not
\* killed ends short of Complete only by the installer's failure.
C2_PartialIsRebuilt ==
    startState = "partial" =>
        /\ pc = "rmtree_old" => fresh = {} /\ calls.extract = 0 /\ calls.venv = 0
        /\ pc = "mkdir" => ~exists /\ \A e \in Entries : node[e] = "absent"
        /\ pc \in SetupPcs \ {"setup_check", "rmtree_old"} => OnlyFresh
        /\ pc \in SetupPcs => ENABLED SetupProgress
        /\ pc = "setup_done" =>
              /\ exists /\ Complete(node, reqs) /\ OnlyFresh
              /\ calls.extract = 1
              /\ calls.venv = (IF reqs # <<>> THEN 1 ELSE 0)
        /\ pc = "crashed" =>
              \/ InstallerFailed(installerOutcome)
              \/ exists /\ Complete(node, reqs) /\ OnlyFresh

C2_Witness ==
    /\ startState = "partial"
    /\ prev.outcome = "killed"
    /\ pc = "setup_done"
    /\ reqs # <<>>

\* C3: with the marker present setup_project_directory returns at once: no
\* extraction, no virtualenv creation, no installer call, directory unchanged,
\* whatever the requirement list and the ephemeral flag; and when the run
\* before was a non-ephemeral full install with requirements, that run called
\* the installer once and this one calls it zero times.
C3_CompleteIsReused ==
    [][ /\ (pc = "setup_check" /\ DirState(exists, node) = "complete") =>
              /\ pc' \in {"setup_done", "killed"}
              /\ exists' = exists /\ node' = node
              /\ calls' = calls /\ installLog' = installLog
        /\ (pc' = "setup_done" /\ startState' = "complete") =>
              /\ calls'.extract = 0 /\ calls'.venv = 0 /\ installLog' = <<>>
              /\ fresh' = {}
        /\ (/\ pc' = "setup_done" /\ reqs # <<>>
            /\ prev'.outcome = "done" /\ ~prev'.ephemeral /\ prev'.path = "full") =>
              /\ prev'.installs = 1
              /\ installLog' = <<>> /\ calls'.extract = 0 /\ calls'.venv = 0
      ]_vars

C3_Witness ==
    /\ pc = "setup_done"
    /\ startState = "complete"
    /\ reqs # <<>>
    /\ prev.outcome = "done" /\ ~prev.ephemeral /\ prev.path = "full"
    /\ prev.installs = 1
    /\ installLog = <<>>

\* C4: when the installer cannot be launched or exits non-zero the run ends
\* with ExecutionError, the directory is left present without unpacking.json
\* and without the marker, and the next run finds it partial and, if its setup
\* returns, has rebuilt it from scratch.
C4_InstallerFailureAborts ==
    /\ InstallerFailed(installerOutcome) =>
          /\ pc = "crashed" /\ crash = "ExecutionError"
          /\ exists
          /\ node[UNPACKING_FILE] = "absent"
          /\ node[COMPLETE_FLAG_FILE] = "absent"
    /\ (InstallerFailed(prev.installer) /\ pc \notin EndedPcs) =>
          /\ startState = "partial"
          /\ pc \in {"setup_done", "payload", "eph_rmtree"} =>
                calls.extract = 1 /\ (pc # "eph_rmtree" => OnlyFresh)

C4_Witness ==
    /\ prev.installer = "nonzero"
    /\ prev.outcome = "crashed"
    /\ pc = "setup_done"

\* the command the installer must get: pip, install, then -r <file> for
\* every requirement file in the list's order
IsInstallCmdFor(cmd, rq) ==
    /\ Len(cmd) = 2 + 2 * Len(rq)
    /\ cmd[1] = PipExec
    /\ cmd[2] = "install"
    /\ \A i \in 1..Len(rq) :
          /\ cmd[2 * i + 1] = "-r"
          /\ cmd[2 * i + 2] = OriginalProjectDir \o <<rq[i]>>

\* C5: in one full setup the installer is invoked exactly once when the
\* requirement list is non-empty, with every requirement file in list order,
\* after extraction and before the marker; with an empty list it is not
\* invoked and no dependency environment is created.
C5_InstallerOnce ==
    [][ /\ installLog' # installLog /\ installLog' # <<>> =>
              /\ installLog = <<>>
              /\ AllExtracted(node)
              /\ node[COMPLETE_FLAG_FILE] = "absent"
              /\ node'[COMPLETE_FLAG_FILE] = "absent"
        /\ (pc' = "setup_done" /\ calls'.extract = 1) =>
              IF reqs # <<>>
              THEN /\ Len(installLog') = 1
                   /\ IsInstallCmdFor(installLog'[1], reqs)
                   /\ calls'.venv = 1
              ELSE /\ installLog' = <<>>
                   /\ calls'.venv = 0
                   /\ node'[PROJECT_VENV_DIR] = "absent"
      ]_vars

C5_Witness ==
    /\ pc = "setup_done"
    /\ startState = "absent"
    /\ Len(reqs) = 2 /\ reqs[1] # reqs[2]
    /\ Len(installLog) = 1
    /\ node[PROJECT_VENV_DIR] = "installed"

\* C6: in an ephemeral run whose payload terminates, nothing of the directory
\* is removed before the payload has terminated, the removal follows, and when
\* run() returns the directory no longer exists and the value returned is the
\* payload's exit status.
C6_EphemeralRemoval ==
    [][ /\ pc \in {"setup_done", "payload"} => exists' = exists /\ node' = node
        /\ (pc' = "eph_rmtree" /\ pc # "eph_rmtree") =>
              pc = "payload" /\ payloadRc' # NoRc
        /\ (Truthy(ephemeral) /\ pc = "payload" /\ pc' # "killed") =>
              pc' = "eph_rmtree"
        /\ (Truthy(ephemeral') /\ pc' = "done") =>
              /\ ~exists'
              /\ \A e \in Entries : node'[e] = "absent"
              /\ payloadRc' # NoRc
              /\ ret' = payloadRc'
      ]_vars

C6_Witness ==
    /\ Truthy(ephemeral)
    /\ pc = "done"
    /\ payloadRc = 1 /\ ret = 1
    /\ ~exists

\* C7: when ephemeral is requested no installation directory exists after the
\* run has ended, whether it returned or raised.
C7_EphemeralNoResidue ==
    (Truthy(ephemeral) /\ pc \in {"done", "crashed"}) => ~exists

Fingerprint(w) ==
    <<Lower(w.implementation), w.version_tuple[1], w.version_tuple[2], w.magic>>

Identity(w) == <<w.project_name, w.files[w.zip_path], Fingerprint(w)>>

\* the pieces of "{projectName}-{20 hex}-{impl}.{major}.{minor}.{magic}"
HasNameShape(name, w) ==
    LET n == Len(w.project_name)
        rest == Lower(w.implementation) \o "." \o w.version_tuple[1] \o "."
                  \o w.version_tuple[2] \o "." \o w.magic
    IN /\ Len(name) = n + 1 + HashPrefixLen + 1 + Len(rest)
       /\ SubSeq(name, 1, n) = w.project_name
       /\ SubSeq(name, n + 1, n + 1) = "-"
       /\ SubSeq(name, n + 2, n + 1 + HashPrefixLen)
            = SubSeq(Sha256Hex(w.files[w.zip_path]), 1, HashPrefixLen)
       /\ SubSeq(name, n + 2 + HashPrefixLen, n + 2 + HashPrefixLen) = "-"
       /\ SubSeq(name, n + 3 + HashPrefixLen, Len(name)) = rest

\* C8: the installation directory name has the documented shape and depends
\* on the project name, the archive bytes and the runtime fingerprint only:
\* two computations return the same name exactly when they agree on these
\* three, whatever the archive's path, the base directory and the time.
C8_NameIsIdentity ==
    \A i \in DOMAIN dirName :
        dirName[i] # NotComputed =>
            /\ HasNameShape(dirName[i], world[i])
            /\ \A j \in DOMAIN dirName \ {i} :
                  dirName[j] # NotComputed =>
                     ((dirName[i] = dirName[j]) <=> (Identity(world[i]) = Identity(world[j])))

C8_Witness ==
    /\ dirName # <<>>
    /\ dirName[1] # NotComputed
    /\ dirName[1] = dirName[2]
    /\ world[1].zip_path # world[2].zip_path
    /\ world[1].time # world[2].time
    /\ world[1].version_tuple # world[2].version_tuple
    /\ world[1].version_tuple[2] = "10"

WellTyped(md) ==
    /\ md.exec_style \in {"script", "module"} => md.exec_value.t = "str"
    /\ md.exec_style = "entrypoint" => md.exec_value.t = "list"

\* C9: build_command returns lead ++ tail: lead is [runtime, script],
\* [runtime, "-m", module] or [runtime] ++ entrypoint argv by style, tail is
\* the user's arguments when there are any and the default arguments otherwise.
C9_CommandIsLeadThenTail ==
    (phase = "built" /\ WellTyped(metadata)) =>
        LET lead == CASE metadata.exec_style = "script" ->
                           <<PyStr(PythonExec), PyStr(metadata.exec_value.s)>>
                      [] metadata.exec_style = "module" ->
                           <<PyStr(PythonExec), PyStr("-m"), PyStr(metadata.exec_value.s)>>
                      [] metadata.exec_style = "entrypoint" ->
                           <<PyStr(PythonExec)>> \o StrList(metadata.exec_value.l)
            tail == IF Len(sysArgs) > 0 THEN sysArgs ELSE metadata.exec_default_args
            cmd == result.cmd
        IN /\ result.ok
           /\ Len(cmd) = Len(lead) + Len(tail)
           /\ \A k \in 1..Len(lead) : cmd[k] = lead[k]
           /\ \A k \in 1..Len(tail) : cmd[Len(lead) + k] = PyStr(tail[k])

C9_Witness ==
    /\ phase = "built"
    /\ metadata.exec_style = "entrypoint"
    /\ metadata.exec_value.t = "list"
    /\ Len(metadata.exec_value.l) = 2
    /\ metadata.exec_default_args # <<>>
    /\ sysArgs # <<>>
    /\ sysArgs # metadata.exec_default_args
    /\ result.ok

\* C10: for a Config with an entrypoint, prepare_metadata stores exec_value
\* as the list of its items, and build_command on that metadata returns
\* [runtime], the entrypoint items one by one, then the trailing arguments.
C10_EntrypointRoundTrip ==
    (metaSource = "packed" /\ config.entrypoint.t = "list") =>
        /\ metadata.exec_style = "entrypoint"
        /\ metadata.exec_value = PyList(config.entrypoint.l)
        /\ phase = "built" =>
              /\ result.ok
              /\ result.cmd = <<PyStr(PythonExec)>> \o StrList(config.entrypoint.l)
                                \o StrList(IF sysArgs # <<>> THEN sysArgs
                                           ELSE config.default_args)

\* C11: whenever the payload was executed, run() ended without an exception
\* and the launcher exits with the payload's exit status, zero or not (a
\* status that happens to equal a FatalError code included).
C11_ExitCodeIsPayloadStatus ==
    childStatus # NoRc =>
        /\ mpc = "exited"
        /\ raised = "none"
        /\ exitCode = childStatus

C11_Witness ==
    /\ mpc = "exited"
    /\ childStatus = RestrictionsNotMet
    /\ exitCode = RestrictionsNotMet
    /\ raised = "none"

\* the venv's executable directory, as the claims name it
PayloadBinDir == VenvBinDir(Join(baseDir, InstallDirName))

\* every variable but PATH and the archive location is passed as it is
OthersPassed(child, own) ==
    \A name \in EnvNames \ {"PATH", "PYEMPAQ_PYZ_PATH"} : child[name] = own[name]

\* C12 as stated: the environment given to the payload has the venv's
\* executable directory, then ":", before what PATH held (alone when PATH
\* was unset) and the archive location set; the other variables are passed
\* unchanged and the launcher's own environment is not modified.
C12_PathPrepended ==
    [][childEnv' # childEnv =>
          /\ childEnv'["PATH"] =
                 IF environ["PATH"] = EnvUnset THEN PayloadBinDir
                 ELSE PayloadBinDir \o ":" \o environ["PATH"]
          /\ childEnv'["PYEMPAQ_PYZ_PATH"] = PyzPath
          /\ OthersPassed(childEnv', environ)
          /\ environ' = environ]_vars

\* C12, amended: the venv's executable directory comes after what PATH
\* held, ":" between them (alone when PATH was unset); the rest as stated.
C12_PathAppended ==
    [][childEnv' # childEnv =>
          /\ childEnv'["PATH"] =
                 IF environ["PATH"] = EnvUnset THEN PayloadBinDir
                 ELSE environ["PATH"] \o ":" \o PayloadBinDir
          /\ childEnv'["PYEMPAQ_PYZ_PATH"] = PyzPath
          /\ OthersPassed(childEnv', environ)
          /\ environ' = environ]_vars

C12_Witness ==
    /\ mpc = "payload"
    /\ environ["PATH"] = "/usr/bin:/bin"
    /\ environ["PYEMPAQ_PYZ_PATH"] # EnvUnset
    /\ Split(childEnv["PATH"], ":") = <<"/usr/bin", "/bin", PayloadBinDir>>

\* what each version string of the model says, component by component
Reading ==
    "3.9" :> <<3, 9>> @@ "3.10" :> <<3, 10>> @@ "3.0009" :> <<3, 9>> @@ "42" :> <<42>>
        @@ "3.9.1" :> <<3, 9, 1>> @@ "3.10.0" :> <<3, 10, 0>>

Component(rel, i) == IF i <= Len(rel) THEN rel[i] ELSE 0

\* component-wise numeric order, a missing component counting as zero
NumericallyGreater(a, b) ==
    \E i \in 1..3 :
        /\ Component(Reading[a], i) > Component(Reading[b], i)
        /\ \A j \in 1..(i - 1) : Component(Reading[a], j) = Component(Reading[b], j)

\* the minimum version the archive declares, if any
DeclaredMinimum ==
    IF restrictions.t = "dict"
           /\ \E v \in MinimumVersions : <<"minimum_python_version", v>> \in restrictions.d
    THEN CHOOSE v \in MinimumVersions : <<"minimum_python_version", v>> \in restrictions.d
    ELSE NoValue

\* key is one of the comma-separated items of str
Listed(key, str) ==
    \E i \in 1..Len(str) :
        LET j == i + Len(key) - 1
        IN /\ j <= Len(str)
           /\ SubSeq(str, i, j) = key
           /\ i = 1 \/ Char(str, i - 1) = ","
           /\ j = Len(str) \/ Char(str, j + 1) = ","

MinimumTooNew ==
    DeclaredMinimum # NoValue /\ NumericallyGreater(DeclaredMinimum, pythonVersion)

MinimumIgnored ==
    /\ environ["PYEMPAQ_IGNORE_RESTRICTIONS"] # EnvUnset
    /\ Listed("minimum-python-version", environ["PYEMPAQ_IGNORE_RESTRICTIONS"])

\* C13: the restriction check ends the run with FatalError restrictions_not_met
\* exactly when a minimum version is declared, is numerically greater than the
\* running version and minimum-python-version is not in the ignore list; an
\* ignored failure is only logged, and without a declared minimum nothing is
\* checked.
C13_RestrictionsEnforced ==
    mpc \notin {"idle", "restrictions"} =>
        /\ (raised = "FatalError" /\ exitCode = RestrictionsNotMet)
               <=> (MinimumTooNew /\ ~MinimumIgnored)
        /\ MinimumTooNew /\ MinimumIgnored =>
               /\ InList(<<"info", "(ignored) " \o FailedMsg(DeclaredMinimum)>>, logs)
               /\ \A i \in 1..Len(logs) : logs[i][1] # "error"
        /\ DeclaredMinimum = NoValue => logs = <<>>

C13_Witness ==
    /\ mpc = "exited"
    /\ raised = "FatalError"
    /\ exitCode = RestrictionsNotMet
    /\ DeclaredMinimum = "3.10"
    /\ pythonVersion = "3.9.1"
    /\ environ["PYEMPAQ_IGNORE_RESTRICTIONS"] = "minimum_python_version"

\* C14: a run whose restriction is not met and not ignored takes no step but
\* the one that ends it with restrictions_not_met: the disk stays as it was
\* (no base directory, no installation directory) and no payload is launched.
C14_RestrictionsBeforeDisk ==
    [][MinimumTooNew /\ ~MinimumIgnored =>
          /\ mpc' = "exited"
          /\ exitCode' = RestrictionsNotMet
          /\ disk' = disk
          /\ childEnv' = NoEnv
          /\ childStatus' = NoRc]_vars

C14_Witness ==
    /\ mpc = "exited"
    /\ exitCode = RestrictionsNotMet
    /\ MinimumTooNew /\ ~MinimumIgnored
    /\ environ["PYEMPAQ_UNPACK_BASE_PATH"] = EnvUnset
    /\ disk[UserDataDir] = "dir"
    /\ disk[DefaultBaseDir] = "missing"

\* C15: with a custom base directory set, get_base_dir leaves the disk as it
\* is, returns that directory when it is a directory, and ends the run with
\* exit code 65 when it is missing and 66 when it is not a directory; with
\* none set, only the default base directory (and its parents) may be created.
C15_BaseDirResolution ==
    [][mpc = "base_dir" =>
          IF environ["PYEMPAQ_UNPACK_BASE_PATH"] # EnvUnset
          THEN /\ disk' = disk
               /\ disk[CustomBaseDir] = "dir" =>
                      mpc' # "exited" /\ baseDir' = CustomBaseDir
               /\ disk[CustomBaseDir] = "missing" =>
                      mpc' = "exited" /\ raised' = "FatalError" /\ exitCode' = 65
               /\ disk[CustomBaseDir] = "file" =>
                      mpc' = "exited" /\ raised' = "FatalError" /\ exitCode' = 66
          ELSE /\ \A p \in Paths \ {UserDataDir, DefaultBaseDir} : disk'[p] = disk[p]
               /\ disk[DefaultBaseDir] = "missing" /\ disk[UserDataDir] # "file" =>
                      disk'[DefaultBaseDir] = "dir" /\ baseDir' = DefaultBaseDir]_vars

C15_Witness ==
    /\ mpc = "exited"
    /\ raised = "FatalError"
    /\ exitCode = 65
    /\ environ["PYEMPAQ_UNPACK_BASE_PATH"] = CustomBaseDir \o "/"
    /\ disk[CustomBaseDir] = "missing"

\* the part of a destination path below dest_dir
InDest(p) == Len(p) >= Len(DestDir) /\ SubSeq(p, 1, Len(DestDir)) = DestDir
DestRel(p) == SubSeq(p, Len(DestDir) + 1, Len(p))

\* an exclude pattern of the model names the node: its own path, or every
\* path for "./**"
ExcludedByPattern(rel) ==
    \E k \in 1..Len(exclude) : exclude[k] = "./**" \/ PathOf(exclude[k]) = rel

ExcludedOrUnder(rel) == \E n \in 0..Len(rel) : ExcludedByPattern(SubSeq(rel, 1, n))

\* C16: at no moment of copy_project does the destination hold an entry for
\* a node that an exclude pattern names or that lies under such a node,
\* whatever the include patterns name.
C16_ExcludedNeverCopied ==
    \A p \in DOMAIN fs :
        InDest(p) /\ ExcludedOrUnder(DestRel(p)) => fs[p].kind = "absent"

C16_Witness ==
    /\ cpc = "done"
    /\ include = <<"a/d/g", "a">>
    /\ exclude = <<"a/d">>
    /\ IsDir(fs, DestDir \o <<"a">>)
    /\ ~LExists(fs, DestDir \o <<"a", "d">>)
    /\ ~LExists(fs, DestDir \o <<"a", "d", "g">>)

\* where a link of the source tree ends, one link after the other
RECURSIVE FinalTarget(_, _)
FinalTarget(p, n) ==
    IF At(fs, p).kind = "symlink" /\ n > 0
    THEN LET t == At(fs, p).target
         IN FinalTarget(IF Head(t) = "/" THEN t ELSE Walk(<<>>, Front(p), t, 0), n - 1)
    ELSE p

InsideSrc(p) == Len(p) > Len(SrcDir) /\ SubSeq(p, 1, Len(SrcDir)) = SrcDir

SourceLinks == {<<"l">>, <<"m">>, <<"a", "k">>}

\* the main loop has reached the node and no exclude pattern covers it
Selected(rel) ==
    /\ \E i \in 1..Len(ops) : PathOf(ops[i].node) = rel
    /\ ~ExcludedOrUnder(rel)

\* C17: a symlink of the source tree whose chain of links ends outside the
\* source root never gets an entry in the destination, be the end a file or
\* a directory; one that ends inside and was selected is there, once
\* copy_project has returned, as a relative symlink to the same node of the
\* destination tree.
C17_OutsideLinksDropped ==
    \A rel \in SourceLinks :
        At(fs, SrcDir \o rel).kind = "symlink" =>
            LET end == FinalTarget(SrcDir \o rel, MaxLinks)
                dest == At(fs, DestDir \o rel)
            IN IF InsideSrc(end)
               THEN cpc = "done" /\ Selected(rel) =>
                        /\ dest.kind = "symlink"
                        /\ Head(dest.target) # "/"
                        /\ Walk(<<>>, Front(DestDir \o rel), dest.target, 0)
                               = DestDir \o SubSeq(end, Len(SrcDir) + 1, Len(end))
               ELSE dest.kind = "absent"

C17_Witness ==
    /\ cpc = "done"
    /\ At(fs, SrcDir \o <<"l">>).target = SrcDir \o <<"m">>
    /\ At(fs, SrcDir \o <<"m">>).target = OutDir \o <<"x">>
    /\ Selected(<<"l">>)
    /\ At(fs, DestDir \o <<"l">>).kind = "absent"

\* the file a key of included_nodes names, in the source and in the destination
SrcOf(key) == At(fs, SrcDir \o PathOf(key))
DestOf(key) == At(fs, DestDir \o PathOf(key))

\* C18: for a regular file the first call is os.link; after a cross-device or
\* permission error shutil.copy2 follows and the destination has the content
\* and the permission bits of the source, as a hard link has; any other error
\* ends copy_project with that error and without a copy.
C18_LinkThenCopy ==
    \A i \in 1..Len(ops) :
        LET c == ops[i].calls
        IN c # <<>> /\ c[1][1] \in {"link", "copy2"} =>
               /\ c[1][1] = "link"
               /\ c[1][2] = "none" =>
                      /\ Len(c) = 1
                      /\ DestOf(ops[i].node).content = SrcOf(ops[i].node).content
                      /\ DestOf(ops[i].node).mode = SrcOf(ops[i].node).mode
               /\ c[1][2] \in {"EXDEV", "PermissionError"} =>
                      /\ c = <<c[1], <<"copy2", "none">>>>
                      /\ DestOf(ops[i].node).kind = "file"
                      /\ DestOf(ops[i].node).content = SrcOf(ops[i].node).content
                      /\ DestOf(ops[i].node).mode = SrcOf(ops[i].node).mode
               /\ c[1][2] \notin {"none", "EXDEV", "PermissionError"} =>
                      /\ Len(c) = 1
                      /\ i = Len(ops) /\ cpc = "failed" /\ copyError = c[1][2]
                      /\ (\A j \in 1..Len(ops) :
                              j # i => PathOf(ops[j].node) # PathOf(ops[i].node))
                             => DestOf(ops[i].node).kind = "absent"

C18_Witness ==
    /\ cpc = "done"
    /\ \E i \in 1..Len(ops) :
           /\ ops[i].calls = <<<<"link", "EXDEV">>, <<"copy2", "none">>>>
           /\ SrcOf(ops[i].node).mode = 755
           /\ DestOf(ops[i].node).mode = 755
           /\ DestOf(ops[i].node).via = "copy"

\* C19: once pack has ended, by returning or by failing at any step, the
\* scratch directory it made is gone.
C19_ScratchAlwaysRemoved ==
    ppc \in {"returned", "failed"} => ~scratch

\* a requirement file of the config that the patterns did not select
MissingRequirement ==
    \E i \in 1..Len(packConfig.requirements) :
        packConfig.requirements[i].s \notin selection

\* C20: when a declared requirement file is not in the selected content, pack
\* ends with a non-zero exit and without an archive; and every archive holds
\* under orig/ each requirement file its metadata lists.
C20_MissingRequirementRefused ==
    /\ ppc \in {"returned", "failed"} /\ MissingRequirement =>
           packExit # 0 /\ ~archive.exists
    /\ archive.exists =>
           \A i \in 1..Len(archive.metadata.requirement_files) :
               ("orig/" \o archive.metadata.requirement_files[i]) \in archive.members

\* the keys of included_nodes that name the same source node as the key does
SameNode(key) == {i \in 1..Len(includedNodes) : PathOf(includedNodes[i]) = PathOf(key)}

\* C24: no two keys of included_nodes name the same source node, whatever
\* the spellings the include patterns reach it under, and copy_project never
\* ends on a destination entry that is already there.
C24_NoDuplicateNodes ==
    /\ \A i \in 1..Len(includedNodes) : SameNode(includedNodes[i]) = {i}
    /\ copyError # "FileExistsError"

\* the main loop has made a directory of the node, or found it made
MadeDirectory(i) == ops[i].calls = <<<<"mkdir", "none">>>>

\* C25: once copy_project has returned, every directory it selected is a
\* directory of the destination with the permission bits of its source,
\* whether the main loop created it or a node below it had it created first.
C25_DirectoryModesKept ==
    cpc = "done" =>
        \A i \in 1..Len(ops) :
            MadeDirectory(i) =>
                /\ DestOf(ops[i].node).kind = "dir"
                /\ DestOf(ops[i].node).mode = SrcOf(ops[i].node).mode

\* C26: whatever the include and exclude lists, copy_project ends on no
\* exception but one os.link met on the disk and passed on, and when it
\* returns the destination root is a directory.
C26_DestinationRootCreated ==
    /\ cpc = "failed" => copyError \in LinkErrors
    /\ cpc = "done" => IsDir(fs, DestDir)

\* the symbolic links of the destination tree
DestLinks == {p \in DOMAIN fs : InDest(p) /\ fs[p].kind = "symlink"}

\* where a relative link at p points, read from the place of the link
PointedFrom(p) == Walk(<<>>, Front(p), fs[p].target, 0)

\* the node of the destination tree that mirrors a node of the source tree
Mirror(src) == DestDir \o SubSeq(src, Len(SrcDir) + 1, Len(src))

\* C28 as stated: once copy_project has returned, every symbolic link of the
\* destination tree resolves to a node that exists inside the destination
\* root.
C28_LinksResolveInside ==
    cpc = "done" =>
        \A p \in DestLinks : Exists(fs, p) /\ InDest(RealPath(fs, p))

\* C28, amended: every symbolic link of the destination tree is relative and
\* points, from its place, inside the destination root at the mirror of the
\* node its source link resolves to; it resolves, and to that mirror, exactly
\* when the mirror is in the destination, and dangles otherwise.
C28_LinksPointAtMirror ==
    cpc = "done" =>
        \A p \in DestLinks :
            LET real_pointed_node == RealPath(fs, SrcDir \o DestRel(p))
            IN /\ Head(fs[p].target) # "/"
               /\ InsideSrc(real_pointed_node)
               /\ PointedFrom(p) = Mirror(real_pointed_node)
               /\ Exists(fs, p) <=> LExists(fs, Mirror(real_pointed_node))
               /\ Exists(fs, p) =>
                      /\ RealPath(fs, p) = Mirror(real_pointed_node)
                      /\ At(fs, RealPath(fs, p)).kind = At(fs, real_pointed_node).kind

\* a link to f is in the destination and f is not
C28_Witness ==
    /\ cpc = "done"
    /\ include = <<"l", "a/k">>
    /\ At(fs, DestDir \o <<"l">>).target = <<"f">>
    /\ At(fs, DestDir \o <<"a", "k">>).target = <<"..", "f">>
    /\ ~Exists(fs, DestDir \o <<"l">>)
    /\ ~LExists(fs, DestDir \o <<"f">>)

\* setup_project_directory has ended on an exception in this run
SetupFailed == crash \in {"ExecutionError", "FileExistsError"}

\* C29: setup_project_directory returns only with the completeness marker in
\* the installation directory, and the payload is started only from there,
\* the marker still present, in a run whose setup has not failed.
C29_LaunchAfterSetup ==
    [][/\ pc' = "setup_done" /\ pc # "setup_done" =>
              /\ pc \in {"setup_check", "touch_flag"}
              /\ exists' /\ Present(node', COMPLETE_FLAG_FILE)
       /\ pc' = "payload" /\ pc # "payload" =>
              /\ pc = "setup_done"
              /\ exists /\ Present(node, COMPLETE_FLAG_FILE)
              /\ exists' /\ Present(node', COMPLETE_FLAG_FILE)
              /\ ~SetupFailed
              /\ installerOutcome \in {"none", "ok"}
       /\ SetupFailed => pc' # "payload" \/ pc = "payload"]_vars

\* the payload runs in a directory this run found partial and set up anew
C29_Witness ==
    /\ pc = "payload"
    /\ startState = "partial"
    /\ calls.extract = 1
    /\ installerOutcome = "ok"
    /\ Present(node, COMPLETE_FLAG_FILE)

\* the run in progress is ephemeral and found the directory Complete
EphemeralReuse == pc # "idle" /\ Truthy(ephemeral) /\ startState = "complete"

\* the run before this one was such a run and returned
AfterEphemeralReuse ==
    prev.outcome = "done" /\ prev.ephemeral /\ prev.start = "complete"

\* C30: an ephemeral run that finds the directory Complete extracts and
\* provisions nothing, and when it has returned the directory is gone; the
\* run after it finds the directory Absent and, when not ephemeral, has
\* extracted and provisioned everything by the time its setup returns.
C30_EphemeralReuseThenFresh ==
    /\ EphemeralReuse =>
           /\ calls = [extract |-> 0, venv |-> 0] /\ installLog = <<>>
           /\ pc \in {"setup_check", "setup_done", "payload"} =>
                  exists /\ Present(node, COMPLETE_FLAG_FILE)
           /\ pc = "done" => ~exists /\ ret = payloadRc
    /\ AfterEphemeralReuse =>
           /\ prev.path = "none" /\ prev.installs = 0
           /\ startState = "absent"
           /\ ~Truthy(ephemeral) /\ pc \in {"setup_done", "payload", "done"} =>
                  /\ calls.extract = 1
                  /\ calls.venv = (IF reqs # <<>> THEN 1 ELSE 0)
                  /\ installLog = (IF reqs # <<>>
                                   THEN <<InstallCmd(VenvRequirements(reqs))>> ELSE <<>>)
                  /\ DirState(exists, node) = "complete"

\* the ephemeral run has reused what a non-ephemeral full install left, and
\* has returned with the directory removed
C30_Witness ==
    /\ pc = "done"
    /\ EphemeralReuse
    /\ prev.outcome = "done" /\ ~prev.ephemeral /\ prev.path = "full"
    /\ payloadRc # NoRc
    /\ ~exists

\* the exec variants a Config has a value for
SetVariants(cfg) == {x \in Subkeys : cfg[x].t # "none"}

\* the exec variants a configuration file gives a value to
GivenVariants(c) == {x \in Subkeys : c[x].t \notin {"missing", "none"}}

\* C21: a Config load_config returns has a value for exactly one of script,
\* module and entrypoint, a configuration file that gives a value to none or
\* to several is rejected, and the metadata of a returned Config has
\* exec_style and exec_value.
C21_ExactlyOneExecVariant ==
    /\ loaded.status = "accepted" =>
           /\ Cardinality(SetVariants(loaded.config)) = 1
           /\ configMetadata # NoMetadata =>
                  /\ configMetadata.exec_style \in Subkeys
                  /\ configMetadata.exec_value.s # NoKey
    /\ yamlContent # NoContent /\ Cardinality(GivenVariants(yamlContent)) # 1 =>
           loaded.status = "rejected"

\* the base directory of a configuration file: its basedir, from the
\* directory of the file when relative or not given
OwnBasedir(c) ==
    IF c.basedir.t = "missing" THEN c.configdir ELSE Over(c.configdir, c.basedir.s)

\* the path-valued fields of a Config: exec.script, exec.module, requirements
PathFields(cfg) ==
    {cfg[x].s : x \in {y \in {"script", "module"} : cfg[y].t = "path"}}
        \cup {cfg.requirements[i].s : i \in 1..Len(cfg.requirements)}

FileFields(cfg) == PathFields(cfg) \ {cfg.module.s}

\* p is below the directory
Below(p, dir) == Len(p) > Len(dir) /\ SubSeq(p, 1, Len(dir)) = dir

\* C27: whatever the calls before it left in _BASEDIR, a Config load_config
\* returns has been validated against its own base directory: that is what
\* _BASEDIR holds, it is a directory, and every path-valued field is
\* relative, exists below it and resolves to a place inside it (script and
\* requirements to a file).
C27_PathsInsideOwnBasedir ==
    loaded.status = "accepted" =>
        LET own == OwnBasedir(yamlContent)
        IN /\ BASEDIR = own
           /\ loaded.config.basedir = own
           /\ IsDir(ConfigDisk, own)
           /\ \A v \in PathFields(loaded.config) :
                  /\ ~IsAbsolute(v)
                  /\ Exists(ConfigDisk, own \o PathOf(v))
                  /\ Below(RealPath(ConfigDisk, own \o PathOf(v)),
                           RealPath(ConfigDisk, own))
           /\ \A v \in FileFields(loaded.config) : IsFile(ConfigDisk, own \o PathOf(v))

\* a file of /b is accepted after a call that left /a in _BASEDIR
C27_Witness ==
    /\ loaded.status = "accepted"
    /\ loaded.before = <<"/", "a">>
    /\ OwnBasedir(yamlContent) = <<"/", "b">>
    /\ loaded.config.script = PyPath("only.py")

\* invocation i has written the completeness marker, or started the
\* payload, with extracted content or the dependency environment missing
Destroyed(i) ==
    \/ procs[i].atMark # NotYet /\ ~(Needed(raceReqs) \subseteq procs[i].atMark)
    \/ procs[i].atLaunch # NotYet /\ ~(Needed(raceReqs) \subseteq procs[i].atLaunch)

\* C22: an invocation writes the completeness marker or starts the payload
\* with extracted content or the dependency environment missing only when
\* another invocation has removed entries of its directory while it was at
\* work there; with two invocations on one directory that is a state the
\* code reaches.
C22_DestroyedOnlyByOverlap ==
    \A i \in Procs : Destroyed(i) => procs[i].hit # "none"

\* invocation 2 found the directory invocation 1 was populating without the
\* marker and removed entries of it; invocation 1 went on and wrote the
\* marker without the extracted content
C22_Witness ==
    /\ initial["id1"] = "absent"
    /\ procs[2].identity = "id1"
    /\ procs[1].hit = "recovery"
    /\ procs[1].atMark # NotYet
    /\ "orig" \notin procs[1].atMark
    /\ COMPLETE_FLAG_FILE \in dirs["id1"].entries
    /\ "orig" \notin dirs["id1"].entries

\* invocation i has taken the step
Acted(i) == procs'[i].pc # procs[i].pc \/ procs'[i].listing # procs[i].listing

\* how an invocation may end when no other touches its directory
OwnEndings == {"none", "ExecutionError", "LaunchError"}

\* C23: a step changes no installation directory but the one of the identity
\* of the invocation that takes it; and invocations of different identities
\* run as if alone: none has entries removed by the other, none ends on an
\* error of the file system, none writes the marker or starts the payload
\* with content missing.
C23_OwnDirectoryOnly ==
    [][/\ \A d \in Identities :
              dirs'[d] # dirs[d] => \E i \in Procs : procs[i].identity = d /\ Acted(i)
       /\ procs[1].identity # procs[2].identity =>
              \A i \in Procs : /\ procs'[i].hit = "none"
                               /\ procs'[i].crash \in OwnEndings
                               /\ ~Destroyed(i)']_vars

\* invocation 1 has rebuilt the partial directory of id1 and removed it after
\* the payload, invocation 2 has installed id2 meanwhile
C23_Witness ==
    /\ procs[2].identity = "id2"
    /\ initial = [id1 |-> "partial", id2 |-> "absent"]
    /\ procs[1].pc = "done" /\ procs[1].ephemeral /\ procs[1].atMark # NotYet
    /\ procs[2].pc = "done" /\ procs[2].atMark # NotYet
    /\ dirs["id1"] = AbsentDir
    /\ dirs["id2"] = LeftDir("complete", raceReqs)

====
